---- MODULE Spec2Model ----
(***************************************************************************)
(* Model of the cryptoscope dashboard (kaizen403/cryptoscope):             *)
(*   - the entry-based tree builder  (src/app/page.tsx buildTree, copied   *)
(*     verbatim as analyzer/page.tsx buildTree and layout.tsx              *)
(*     buildTreeFromEntries),                                              *)
(*   - the path-based tree builder   (src/app/layout.tsx                   *)
(*     buildTreeFromFilePaths),                                            *)
(*   - the ingestion controller of the home view (src/app/page.tsx         *)
(*     HomeContent) and of the analyzer view (src/app/analyzer/page.tsx    *)
(*     AnalyzerPageInner).                                                 *)
(* Strings are sequences of UTF-16 code units; a TreeNode is a record      *)
(* whose field hasChildren says whether `children` is defined.  The        *)
(* optional `supported` flag of a node is display-only and is left out.    *)
(***************************************************************************)
EXTENDS Integers, Sequences, FiniteSets, TLC

(* ------------------------------ bounds -------------------------------- *)
MaxEntries == 4
MaxLevel == 2
MaxPaths == 2
MaxChars == 6
MaxRequests == 3
MaxAnalyzerRequests == 2
MaxStoreOps == 2
MaxHealthChecks == 3

MaxFiles == 2

MaxRetryRequests == 2

(* --------------------------- program constants ------------------------ *)
Slash == 47
HomeCap == 90

AnalyzerCap == 92

\* " "
Space == 32

\* Math.random() * 6 + 1 lies in [1, 7): two of its values
Increments == {3, 6}

\* "/", "a", "b"
Alphabet == {Slash, 97, 98}

VARIABLES
    \* --- the tree view
    builder,          \* which tree builder the tree view applies
    inEntries,        \* DirectoryEntry[] handed to buildTree
    inPaths,          \* string[] handed to buildTreeFromFilePaths
    outTree,          \* the TreeNode[] it returned
    built,            \* whether the builder has run
    \* --- state that HomeContent and AnalyzerPageInner both declare
    mode,             \* useState<Mode>
    zipFile,          \* useState<File | null>
    analysisResult,   \* useState<AnalysisResult | null>
    progressPct,      \* useState(0)
    timerRef,         \* progressTimerRef / timerRef: interval id, 0 for null
    intervals,        \* the interval timers of the event loop that are active
    resetTimeouts,    \* pending setTimeout(() => setProgressPct(0)) callbacks
    nRequests,        \* operations that send a request, started so far
    \* --- HomeContent only
    feedback,         \* useState<{type, text} | null>
    editorOpen,
    uploadLoading,
    analysisLoading,
    storedLoading,
    storedItems,
    storedSelection,
    listReqs,         \* GET /store/list requests in flight
    upReq,            \* the POST /upload-zip of handleUploadAnalyze
    stReq,            \* the GET /store/analyze/{name} of handleAnalyzeStored
    lastOk,           \* history: the successful analyze response that arrived last
    okSeqMax,         \* history: the latest-issued request that has succeeded
    \* --- AnalyzerPageInner (directoryPath and gitUrl also HomeContent)
    directoryPath,    \* useState('')
    gitUrl,           \* useState('')
    loading,          \* useState(false)
    treeEntries,      \* useState<DirectoryEntry[]>([])
    expanded,         \* useState<Record<string, boolean>>: a map from paths to booleans
    anReq,            \* the request of onAnalyzeLocal / onAnalyzeGit / onAnalyzeZip
    dirReqs,          \* fetchDirectoryTree calls of "preview structure" in flight
    treeOfResult,     \* history: treeEntries was set by the handler that set analysisResult
    \* --- HomeContent: the store and delete handlers
    uploadStoring,    \* useState(false)
    gitStoreLoading,  \* useState(false)
    storedDeleting,   \* useState(false)
    zipStoreReq,      \* position of handleUploadStore
    gitStoreReq,      \* position of handleGitStore
    delReq,           \* position of handleDeleteStored, the name it deletes, response.ok
    \* --- HomeContent: the health effect
    apiHealthy,       \* useState("checking")
    healthPhase,      \* "initial", "mounted" (effect has run), "unmounted" (cleanup has run)
    healthTimer,      \* whether the interval of the effect is registered
    healthChecks,     \* the /health requests issued, in order: "pending", "aborted", "done"
    \* --- HomeContent: what a render derives from the result
    viewResult,       \* the analysisResult the render reads
    viewFolder,       \* the path of the folder node renderTree draws
    showCharts,       \* useState(true)
    rendered,         \* whether the render has run
    shownFiles,       \* filesToDisplay
    shownCounts,      \* findingsCountByPath
    shownFolderCount, \* getFolderCount(node.path) of the folder node
    shownFindings,    \* findings
    shownChartData,   \* getChartData
    shownCharts,      \* whether renderCharts() returned the charts section
    \* --- the page that is mounted, and the structure preview of HomeContent
    route,            \* "/" (HomeContent) or "/analyzer" (AnalyzerPageInner)
    structureLoading, \* useState(false)
    directoryStructure, \* useState<DirectoryEntry[]>([])
    structureReq      \* position of fetchDirectoryStructure

treeVars == <<builder, inEntries, inPaths, outTree, built>>

progressVars == <<progressPct, timerRef, intervals, resetTimeouts>>

uiVars == <<mode, zipFile, analysisResult, progressPct, timerRef, intervals,
            resetTimeouts, nRequests>>

storedVars == <<storedLoading, storedItems, storedSelection, listReqs>>

homeVars == <<feedback, editorOpen, uploadLoading, analysisLoading, storedLoading,
              storedItems, storedSelection, listReqs, upReq, stReq, lastOk, okSeqMax>>

analyzerVars == <<directoryPath, gitUrl, loading, treeEntries, expanded, anReq, dirReqs,
                  treeOfResult>>

storeVars == <<uploadStoring, gitStoreLoading, storedDeleting, zipStoreReq, gitStoreReq, delReq>>

healthVars == <<apiHealthy, healthPhase, healthTimer, healthChecks>>

viewVars == <<viewResult, viewFolder, showCharts, rendered, shownFiles, shownCounts,
              shownFolderCount, shownFindings, shownChartData, shownCharts>>

structureVars == <<route, structureLoading, directoryStructure, structureReq>>

vars == <<treeVars, uiVars, homeVars, analyzerVars, storeVars, healthVars, viewVars,
          structureVars>>

(* ------------------------------ helpers ------------------------------- *)
Last(s) == s[Len(s)]

Front(s) == SubSeq(s, 1, Len(s) - 1)

MinOf(S) == CHOOSE x \in S : \A y \in S : x <= y

MaxOf(S) == CHOOSE x \in S : \A y \in S : y <= x

\* all strings over Alphabet of length at most n
Strs(n) == UNION {[1..k -> Alphabet] : k \in 0..n}

\* the pieces of s cut after the positions c[1] <= c[2] <= ...
Pieces(s, c) ==
    [i \in 1..(Len(c) + 1) |->
        SubSeq(s, (IF i = 1 THEN 0 ELSE c[i - 1]) + 1,
                  IF i = Len(c) + 1 THEN Len(s) ELSE c[i])]

CutsFor(s, k) ==
    {c \in [1..(k - 1) -> 0..Len(s)] : \A i \in 1..(k - 2) : c[i] <= c[i + 1]}

\* DirectoryEntry: path is the unique identifier, here the entry's position
EntryChoices == [type : {"folder", "file"}, level : 0..MaxLevel]

\* the entry list with the given types and levels
EntryList(c) ==
    [i \in 1..Len(c) |-> [type |-> c[i].type, level |-> c[i].level,
                          name |-> i, path |-> i]]

(* ------------------- entry-based tree builder ------------------------- *)
\* the object created for an entry: children is [] for a folder, undefined
\* for a file; kids holds references (entry positions) to the child objects
NewNode(entry) ==
    [name |-> entry.name, path |-> entry.path, type |-> entry.type,
     level |-> entry.level, defined |-> entry.type = "folder", kids |-> <<>>]

ShouldPopStrict(top, entry) == top.level > entry.level

\* the loop condition on the top of the stack
ShouldPop(top, entry) == top.level >= entry.level

PushesAlways(entry) == TRUE

PushesNothing(entry) == FALSE

\* only a folder is pushed as a candidate parent
PushesOnStack(entry) == entry.type = "folder"

RECURSIVE PopWhile(_, _, _)
PopWhile(stack, heap, entry) ==
    IF stack # <<>> /\ ShouldPop(heap[Last(stack)], entry)
    THEN PopWhile(Front(stack), heap, entry)
    ELSE stack

PushChildFirst(obj, i) ==
    [obj EXCEPT !.defined = TRUE,
                !.kids = <<i>> \o (IF obj.defined THEN obj.kids ELSE <<>>)]

PushChildReplaces(obj, i) == [obj EXCEPT !.defined = TRUE, !.kids = <<i>>]

\* parent.children ||= []; parent.children.push(node)
PushChild(obj, i) ==
    [obj EXCEPT !.defined = TRUE,
                !.kids = Append(IF obj.defined THEN obj.kids ELSE <<>>, i)]

\* one iteration of the loop over the entries
BuildStep(st, entries, i) ==
    LET entry  == entries[i]
        heap1  == Append(st.heap, NewNode(entry))
        stack1 == PopWhile(st.stack, heap1, entry)
        tree1  == IF stack1 = <<>> THEN Append(st.tree, i) ELSE st.tree
        heap2  == IF stack1 = <<>> THEN heap1
                  ELSE [heap1 EXCEPT ![Last(stack1)] = PushChild(@, i)]
        stack2 == IF PushesOnStack(entry) THEN Append(stack1, i) ELSE stack1
    IN [tree |-> tree1, stack |-> stack2, heap |-> heap2]

RECURSIVE BuildLoop(_, _, _)
BuildLoop(st, entries, i) ==
    IF i > Len(entries) THEN st
    ELSE BuildLoop(BuildStep(st, entries, i), entries, i + 1)

\* the returned value: the objects reachable from `tree`, as nested records
RECURSIVE ToTree(_, _)
ToTree(heap, refs) ==
    [j \in 1..Len(refs) |->
        LET o == heap[refs[j]] IN
        [name |-> o.name, path |-> o.path, type |-> o.type, level |-> o.level,
         hasChildren |-> o.defined,
         children |-> IF o.defined THEN ToTree(heap, o.kids) ELSE <<>>]]

buildTree(entries) ==
    LET fin == BuildLoop([tree |-> <<>>, stack |-> <<>>, heap |-> <<>>],
                         entries, 1)
    IN ToTree(fin.heap, fin.tree)

(* -------------------- path-based tree builder ------------------------- *)
RECURSIVE SplitFrom(_, _, _, _)
SplitFrom(s, i, cur, acc) ==
    IF i > Len(s) THEN Append(acc, cur)
    ELSE IF s[i] = Slash THEN SplitFrom(s, i + 1, <<>>, Append(acc, cur))
    ELSE SplitFrom(s, i + 1, Append(cur, s[i]), acc)

\* full.split("/")
Split(s) == SplitFrom(s, 1, <<>>, <<>>)

KeepsEmpty(p) == TRUE

\* Boolean(segment)
NonEmpty(p) == p # <<>>

\* full.split("/").filter(Boolean)
Parts(full) == SelectSeq(Split(full), NonEmpty)

\* agg after the first k segments: "/" + segment, concatenated
RECURSIVE Agg(_, _)
Agg(parts, k) ==
    IF k = 0 THEN <<>> ELSE Agg(parts, k - 1) \o <<Slash>> \o parts[k]

SegTypeAlwaysFile(idx, n) == "file"

\* idx === parts.length - 1 ? "file" : "folder"   (idx counted from 1 here)
SegType(idx, n) == IF idx = n THEN "file" ELSE "folder"

\* The trie: a map from a node's key (the segments leading to it) to the
\* object stored there; keys holds Object.keys(children), in insertion order.
EmptyTrie == (<<>> :> [name |-> <<>>, path |-> <<>>, type |-> "root", keys |-> <<>>])

\* cursor.children[segment] ||= {...}; cursor = cursor.children[segment]
InsertSegment(trie, parts, idx) ==
    LET cursor == SubSeq(parts, 1, idx - 1)
        child  == SubSeq(parts, 1, idx)
    IN IF child \in DOMAIN trie THEN trie
       ELSE [k \in DOMAIN trie \cup {child} |->
               IF k = child
               THEN [name |-> parts[idx], path |-> Agg(parts, idx),
                     type |-> SegType(idx, Len(parts)), keys |-> <<>>]
               ELSE IF k = cursor
               THEN [trie[k] EXCEPT !.keys = Append(@, parts[idx])]
               ELSE trie[k]]

RECURSIVE InsertPath(_, _, _)
InsertPath(trie, parts, idx) ==
    IF idx > Len(parts) THEN trie
    ELSE InsertPath(InsertSegment(trie, parts, idx), parts, idx + 1)

RECURSIVE InsertAll(_, _, _)
InsertAll(trie, paths, i) ==
    IF i > Len(paths) THEN trie
    ELSE InsertAll(InsertPath(trie, Parts(paths[i]), 1), paths, i + 1)

\* a < b in the order of Array.prototype.sort without comparator:
\* code unit by code unit, a proper prefix first
StrLess(a, b) ==
    LET n     == IF Len(a) < Len(b) THEN Len(a) ELSE Len(b)
        diffs == {i \in 1..n : a[i] # b[i]}
    IN IF diffs = {} THEN Len(a) < Len(b)
       ELSE a[MinOf(diffs)] < b[MinOf(diffs)]

RECURSIVE InsertSorted(_, _)
InsertSorted(sorted, x) ==
    IF sorted = <<>> THEN <<x>>
    ELSE IF StrLess(x, Head(sorted)) THEN <<x>> \o sorted
    ELSE <<Head(sorted)>> \o InsertSorted(Tail(sorted), x)

RECURSIVE SortFrom(_, _, _)
SortFrom(keys, i, acc) ==
    IF i > Len(keys) THEN acc
    ELSE SortFrom(keys, i + 1, InsertSorted(acc, keys[i]))

Unsorted(keys) == keys

\* Object.keys(node.children || {}).sort()
SortedKeys(keys) == SortFrom(keys, 1, <<>>)

RECURSIVE toNodes(_, _, _)
toNodes(trie, key, level) ==
    LET keys == SortedKeys(trie[key].keys) IN
    [j \in 1..Len(keys) |->
        LET ckey  == Append(key, keys[j])
            child == trie[ckey]
        IN [name |-> child.name, path |-> child.path, type |-> child.type,
            level |-> level,
            hasChildren |-> child.type = "folder",
            children |-> IF child.type = "folder"
                         THEN toNodes(trie, ckey, level + 1) ELSE <<>>]]

buildTreeFromFilePaths(paths) == toNodes(InsertAll(EmptyTrie, paths, 1), <<>>, 0)

(* ------------------------ values of the views ------------------------- *)
Null == [null |-> TRUE]

Modes == {"local", "upload", "git", "stored"}

\* "/a" and "/s/a", "/s/b"
FileA == <<Slash, 97>>

FileSA == <<Slash, 115, Slash, 97>>

FileSB == <<Slash, 115, Slash, 98>>

\* a BasicCryptoAnalysis record of the backend; an optional array that the
\* backend left out is a field the record does not have
AnalysisOf(p) == [file_path |-> p]

\* an AnalysisResult with basic_analysis only: the file "/a"
ResultA == [status |-> "success", basic_analysis |-> <<AnalysisOf(FileA)>>]

\* an AnalysisResult with detailed_reviews: the files "/s/a" and "/s/b"
ResultS ==
    [status |-> "success",
     basic_analysis |-> <<AnalysisOf(FileSA), AnalysisOf(FileSB)>>,
     detailed_reviews |-> <<[original_analysis |-> AnalysisOf(FileSA)],
                            [original_analysis |-> AnalysisOf(FileSB)]>>]

\* AnalysisResult payloads of the backend
Results == {ResultA, ResultS}

\* the JSON body of a non-2xx answer
ErrorBody == [status |-> "error"]

\* arr?.length || 0 of an optional array field
LengthOf(rec, field) == IF field \in DOMAIN rec THEN Len(rec[field]) ELSE 0

\* review.original_analysis || review
analysisOfReview(review) ==
    IF "original_analysis" \in DOMAIN review /\ review.original_analysis # Null
    THEN review.original_analysis
    ELSE review

PrefersBasic(result) ==
    IF result = Null THEN <<>>
    ELSE IF LengthOf(result, "basic_analysis") > 0
    THEN [i \in 1..Len(result.basic_analysis) |->
            [analysis |-> result.basic_analysis[i]]]
    ELSE IF LengthOf(result, "detailed_reviews") > 0
    THEN [i \in 1..Len(result.detailed_reviews) |->
            [analysis |-> analysisOfReview(result.detailed_reviews[i]),
             review |-> result.detailed_reviews[i]]]
    ELSE <<>>

\* getFilesCollection(result): the reviews when there are any, else the
\* basic analyses, else nothing
getFilesCollection(result) ==
    IF result = Null THEN <<>>
    ELSE IF LengthOf(result, "detailed_reviews") > 0
    THEN [i \in 1..Len(result.detailed_reviews) |->
            [analysis |-> analysisOfReview(result.detailed_reviews[i]),
             review |-> result.detailed_reviews[i]]]
    ELSE IF LengthOf(result, "basic_analysis") > 0
    THEN [i \in 1..Len(result.basic_analysis) |->
            [analysis |-> result.basic_analysis[i]]]
    ELSE <<>>

\* getFilesCollection(data).map(f => f.analysis.file_path)
filePaths(data) ==
    LET files == getFilesCollection(data) IN
    [i \in 1..Len(files) |-> files[i].analysis.file_path]

ZipFiles == {[name |-> "code.zip"]}

\* payload.items of GET /store/list
Catalogs == {<<>>, <<"s1", "s2">>}

IdleReq == [pc |-> "idle", seq |-> 0, ok |-> FALSE]

TreeIdle ==
    /\ builder = "none"
    /\ inEntries = <<>>
    /\ inPaths = <<>>
    /\ outTree = <<>>
    /\ built = FALSE

UiIdle ==
    /\ mode = "local"
    /\ zipFile = Null
    /\ analysisResult = Null
    /\ progressPct = 0
    /\ timerRef = 0
    /\ intervals = {}
    /\ resetTimeouts = 0
    /\ nRequests = 0

HomeIdle ==
    /\ feedback = Null
    /\ editorOpen = FALSE
    /\ uploadLoading = FALSE
    /\ analysisLoading = FALSE
    /\ storedLoading = FALSE
    /\ storedItems = <<>>
    /\ storedSelection = ""
    /\ listReqs = 0
    /\ upReq = IdleReq
    /\ stReq = IdleReq
    /\ lastOk = [seq |-> 0, data |-> Null]
    /\ okSeqMax = 0

AnalyzerIdleReq == [pc |-> "idle", kind |-> "none", ok |-> FALSE, json |-> FALSE]

AnalyzerIdle ==
    /\ directoryPath = <<>>
    /\ gitUrl = <<>>
    /\ loading = FALSE
    /\ treeEntries = <<>>
    /\ expanded = <<>>
    /\ anReq = AnalyzerIdleReq
    /\ dirReqs = 0
    /\ treeOfResult = FALSE

StoreIdle ==
    /\ uploadStoring = FALSE
    /\ gitStoreLoading = FALSE
    /\ storedDeleting = FALSE
    /\ zipStoreReq = "idle"
    /\ gitStoreReq = "idle"
    /\ delReq = [pc |-> "idle", name |-> "", ok |-> FALSE]

HealthIdle ==
    /\ apiHealthy = "checking"
    /\ healthPhase = "initial"
    /\ healthTimer = FALSE
    /\ healthChecks = <<>>

ViewIdle ==
    /\ viewResult = Null
    /\ viewFolder = <<>>
    /\ showCharts = TRUE
    /\ rendered = FALSE
    /\ shownFiles = <<>>
    /\ shownCounts = <<>>
    /\ shownFolderCount = 0
    /\ shownFindings = [vulnerabilities |-> <<>>, recommendations |-> <<>>]
    /\ shownChartData = Null
    /\ shownCharts = FALSE

StructureIdle(r) ==
    /\ route = r
    /\ structureLoading = FALSE
    /\ directoryStructure = <<>>
    /\ structureReq = "idle"

(* --------------------- the tree view applies a builder ---------------- *)
\* the input is any list of at most MaxEntries entries, or any list of at most
\* MaxPaths strings holding at most MaxChars characters in total
TreeInit ==
    /\ outTree = <<>>
    /\ built = FALSE
    /\ \/ /\ builder = "entries"
          /\ inPaths = <<>>
          /\ \E k \in 0..MaxEntries : \E c \in [1..k -> EntryChoices] :
                inEntries = EntryList(c)
       \/ /\ builder = "paths"
          /\ inEntries = <<>>
          /\ \/ inPaths = <<>>
             \/ \E s \in Strs(MaxChars) : \E j \in 1..MaxPaths :
                   \E c \in CutsFor(s, j) : inPaths = Pieces(s, c)
    /\ UiIdle
    /\ HomeIdle
    /\ AnalyzerIdle
    /\ StoreIdle
    /\ HealthIdle
    /\ ViewIdle
    /\ StructureIdle("/")

BuildFromEntries ==
    /\ builder = "entries"
    /\ ~built
    /\ outTree' = buildTree(inEntries)
    /\ built' = TRUE
    /\ UNCHANGED <<builder, inEntries, inPaths, uiVars, homeVars>>
    /\ UNCHANGED analyzerVars
    /\ UNCHANGED storeVars
    /\ UNCHANGED healthVars
    /\ UNCHANGED viewVars
    /\ UNCHANGED structureVars

BuildFromPaths ==
    /\ builder = "paths"
    /\ ~built
    /\ outTree' = buildTreeFromFilePaths(inPaths)
    /\ built' = TRUE
    /\ UNCHANGED <<builder, inEntries, inPaths, uiVars, homeVars>>
    /\ UNCHANGED analyzerVars
    /\ UNCHANGED storeVars
    /\ UNCHANGED healthVars
    /\ UNCHANGED viewVars
    /\ UNCHANGED structureVars

TreeNext == BuildFromEntries \/ BuildFromPaths

SpecTree == TreeInit /\ [][TreeNext]_vars

(* ------------------- HomeContent (src/app/page.tsx) ------------------- *)
\* the id setInterval returns: one no live timer and no kept reference holds
NewTimerId(live) == MinOf({i \in 1..(Cardinality(live) + 2) : i \notin live /\ i # timerRef})

NotCleared(live, id) == live

\* clearInterval(id): no effect when id is no live timer
Cleared(live, id) == live \ {id}

\* startProgress of HomeContent
startProgress ==
    LET live == IF timerRef # 0 THEN Cleared(intervals, timerRef) ELSE intervals
        id   == NewTimerId(live)
    IN /\ progressPct' = 1
       /\ timerRef' = id
       /\ intervals' = live \cup {id}
       /\ UNCHANGED resetTimeouts

\* stopProgress of HomeContent
stopProgress ==
    /\ intervals' = IF timerRef # 0 THEN Cleared(intervals, timerRef) ELSE intervals
    /\ timerRef' = 0
    /\ progressPct' = 100
    /\ resetTimeouts' = resetTimeouts + 1

\* the interval callback: prev => Math.min(prev + (Math.random() * 6 + 1), 90)
HomeTick ==
    /\ intervals # {}
    /\ \E inc \in Increments :
          progressPct' = IF progressPct + inc < HomeCap THEN progressPct + inc ELSE HomeCap
    /\ UNCHANGED <<timerRef, intervals, resetTimeouts>>
    /\ UNCHANGED <<mode, zipFile, analysisResult, nRequests, treeVars, homeVars>>
    /\ UNCHANGED analyzerVars
    /\ UNCHANGED storeVars
    /\ UNCHANGED healthVars
    /\ UNCHANGED viewVars
    /\ UNCHANGED structureVars

\* the timeout callback of stopProgress: () => setProgressPct(0)
ResetFires ==
    /\ resetTimeouts > 0
    /\ progressPct' = 0
    /\ resetTimeouts' = resetTimeouts - 1
    /\ UNCHANGED <<timerRef, intervals>>
    /\ UNCHANGED <<mode, zipFile, analysisResult, nRequests, treeVars, homeVars>>
    /\ UNCHANGED analyzerVars
    /\ UNCHANGED storeVars
    /\ UNCHANGED healthVars
    /\ UNCHANGED viewVars
    /\ UNCHANGED structureVars

\* notify(type, text)
notify(type) == feedback' = [type |-> type]

\* refreshStoredItems up to its fetch
refreshStart ==
    /\ nRequests < MaxRequests
    /\ nRequests' = nRequests + 1
    /\ storedLoading' = TRUE
    /\ listReqs' = listReqs + 1
    /\ UNCHANGED <<storedItems, storedSelection>>

\* a mode button: setMode(item.id); resetFeedback(); the effect on [mode]
\* calls refreshStoredItems when the mode has become "stored"
SetMode(m) ==
    /\ mode' = m
    /\ feedback' = Null
    /\ IF m = "stored" /\ mode # "stored"
       THEN refreshStart
       ELSE UNCHANGED <<storedVars, nRequests>>
    /\ UNCHANGED <<zipFile, analysisResult, progressVars, treeVars>>
    /\ UNCHANGED <<editorOpen, uploadLoading, analysisLoading, upReq, stReq, lastOk, okSeqMax>>
    /\ UNCHANGED analyzerVars
    /\ UNCHANGED storeVars
    /\ UNCHANGED healthVars
    /\ UNCHANGED viewVars
    /\ UNCHANGED structureVars

\* the file input of upload mode: setZipFile(file)
ChooseZip(f) ==
    /\ mode = "upload"
    /\ zipFile' = f
    /\ UNCHANGED <<mode, analysisResult, progressVars, nRequests, treeVars, homeVars>>
    /\ UNCHANGED analyzerVars
    /\ UNCHANGED storeVars
    /\ UNCHANGED healthVars
    /\ UNCHANGED viewVars
    /\ UNCHANGED structureVars

\* the select of stored mode: setStoredSelection(event.target.value)
SelectStored(i) ==
    /\ mode = "stored"
    /\ ~storedLoading
    /\ i \in 1..Len(storedItems)
    /\ storedSelection' = storedItems[i]
    /\ UNCHANGED <<storedLoading, storedItems, listReqs>>
    /\ UNCHANGED <<uiVars, treeVars>>
    /\ UNCHANGED <<feedback, editorOpen, uploadLoading, analysisLoading, upReq, stReq, lastOk, okSeqMax>>
    /\ UNCHANGED analyzerVars
    /\ UNCHANGED storeVars
    /\ UNCHANGED healthVars
    /\ UNCHANGED viewVars
    /\ UNCHANGED structureVars

\* the "refresh" button of stored mode
RefreshClick ==
    /\ mode = "stored"
    /\ refreshStart
    /\ UNCHANGED <<mode, zipFile, analysisResult, progressVars, treeVars>>
    /\ UNCHANGED <<feedback, editorOpen, uploadLoading, analysisLoading, upReq, stReq, lastOk, okSeqMax>>
    /\ UNCHANGED analyzerVars
    /\ UNCHANGED storeVars
    /\ UNCHANGED healthVars
    /\ UNCHANGED viewVars
    /\ UNCHANGED structureVars

\* the bodies of a 2xx answer of GET /store/list: items may be absent
ListPayloads ==
    {[hasItems |-> TRUE, items |-> c] : c \in Catalogs} \cup
    {[hasItems |-> FALSE, items |-> <<>>]}

\* payload?.items || []
itemsOf(payload) == IF payload.hasItems THEN payload.items ELSE <<>>

NoSelection(payload) == ""

StaleSelection(payload) == "s1"

\* payload?.items?.[0]?.name ?? ""
defaultSelection(payload) ==
    IF itemsOf(payload) # <<>> THEN itemsOf(payload)[1] ELSE ""

\* refreshStoredItems from the answer of GET /store/list to its finally
refreshAnswered ==
    /\ storedLoading' = FALSE
    /\ \/ \E payload \in ListPayloads :
             /\ storedItems' = itemsOf(payload)
             /\ storedSelection' = defaultSelection(payload)
             /\ UNCHANGED feedback
       \/ /\ notify("error")
          /\ UNCHANGED <<storedItems, storedSelection>>

\* a refreshStoredItems started by the mode effect or the refresh button settles
RefreshSettles ==
    /\ listReqs > 0
    /\ listReqs' = listReqs - 1
    /\ refreshAnswered
    /\ UNCHANGED <<uiVars, treeVars>>
    /\ UNCHANGED <<editorOpen, uploadLoading, analysisLoading, upReq, stReq, lastOk, okSeqMax>>
    /\ UNCHANGED analyzerVars
    /\ UNCHANGED storeVars
    /\ UNCHANGED healthVars
    /\ UNCHANGED viewVars
    /\ UNCHANGED structureVars

MergesResults(prev, data) ==
    IF prev = Null THEN data
    ELSE [status |-> data.status,
          basic_analysis |-> [i \in 1..Len(filePaths(prev)) |-> AnalysisOf(filePaths(prev)[i])]
                             \o [i \in 1..Len(filePaths(data)) |-> AnalysisOf(filePaths(data)[i])]]

KeepsFirstResult(prev, data) == IF prev = Null THEN data ELSE prev

\* setAnalysisResult(data)
setAnalysisResult(prev, data) == data

\* history of the analyze responses that carried a payload
Arrived(req, data) ==
    /\ lastOk' = [seq |-> req.seq, data |-> data]
    /\ okSeqMax' = IF req.seq > okSeqMax THEN req.seq ELSE okSeqMax

\* handleUploadAnalyze up to its fetch
UploadAnalyzeClick ==
    /\ mode = "upload"
    /\ ~uploadLoading
    /\ IF zipFile = Null
       THEN /\ notify("error")
            /\ UNCHANGED <<editorOpen, uploadLoading, upReq, progressVars, nRequests>>
       ELSE /\ nRequests < MaxRequests
            /\ feedback' = Null
            /\ editorOpen' = TRUE
            /\ uploadLoading' = TRUE
            /\ startProgress
            /\ nRequests' = nRequests + 1
            /\ upReq' = [pc |-> "fetch", seq |-> nRequests + 1, ok |-> FALSE]
    /\ UNCHANGED <<mode, zipFile, analysisResult, treeVars, storedVars>>
    /\ UNCHANGED <<analysisLoading, stReq, lastOk, okSeqMax>>
    /\ UNCHANGED analyzerVars
    /\ UNCHANGED storeVars
    /\ UNCHANGED healthVars
    /\ UNCHANGED viewVars
    /\ UNCHANGED structureVars

\* handleUploadAnalyze: the fetch is answered (2xx or not) or rejects
UploadFetchSettles ==
    /\ upReq.pc = "fetch"
    /\ \/ /\ \E ok \in BOOLEAN : upReq' = [upReq EXCEPT !.pc = "body", !.ok = ok]
          /\ UNCHANGED <<feedback, uploadLoading, progressVars>>
       \/ /\ notify("error")
          /\ uploadLoading' = FALSE
          /\ stopProgress
          /\ upReq' = IdleReq
    /\ UNCHANGED <<mode, zipFile, analysisResult, nRequests, treeVars, storedVars>>
    /\ UNCHANGED <<editorOpen, analysisLoading, stReq, lastOk, okSeqMax>>
    /\ UNCHANGED analyzerVars
    /\ UNCHANGED storeVars
    /\ UNCHANGED healthVars
    /\ UNCHANGED viewVars
    /\ UNCHANGED structureVars

\* handleUploadAnalyze: response.json() or response.text() settles; finally
UploadBodySettles ==
    /\ upReq.pc = "body"
    /\ \/ /\ upReq.ok
          /\ \E data \in Results :
                /\ analysisResult' = setAnalysisResult(analysisResult, data)
                /\ Arrived(upReq, data)
          /\ notify("success")
       \/ /\ notify("error")
          /\ UNCHANGED <<analysisResult, lastOk, okSeqMax>>
    /\ uploadLoading' = FALSE
    /\ stopProgress
    /\ upReq' = IdleReq
    /\ UNCHANGED <<mode, zipFile, nRequests, treeVars, storedVars>>
    /\ UNCHANGED <<editorOpen, analysisLoading, stReq>>
    /\ UNCHANGED analyzerVars
    /\ UNCHANGED storeVars
    /\ UNCHANGED healthVars
    /\ UNCHANGED viewVars
    /\ UNCHANGED structureVars

\* handleAnalyzeStored up to its fetch
StoredAnalyzeClick ==
    /\ mode = "stored"
    /\ ~analysisLoading
    /\ storedSelection # ""
    /\ nRequests < MaxRequests
    /\ feedback' = Null
    /\ analysisLoading' = TRUE
    /\ editorOpen' = TRUE
    /\ startProgress
    /\ nRequests' = nRequests + 1
    /\ stReq' = [pc |-> "fetch", seq |-> nRequests + 1, ok |-> FALSE]
    /\ UNCHANGED <<mode, zipFile, analysisResult, treeVars, storedVars>>
    /\ UNCHANGED <<uploadLoading, upReq, lastOk, okSeqMax>>
    /\ UNCHANGED analyzerVars
    /\ UNCHANGED storeVars
    /\ UNCHANGED healthVars
    /\ UNCHANGED viewVars
    /\ UNCHANGED structureVars

\* handleAnalyzeStored: the fetch is answered (2xx or not) or rejects
StoredFetchSettles ==
    /\ stReq.pc = "fetch"
    /\ \/ /\ \E ok \in BOOLEAN : stReq' = [stReq EXCEPT !.pc = "body", !.ok = ok]
          /\ UNCHANGED <<feedback, analysisLoading, progressVars>>
       \/ /\ notify("error")
          /\ analysisLoading' = FALSE
          /\ stopProgress
          /\ stReq' = IdleReq
    /\ UNCHANGED <<mode, zipFile, analysisResult, nRequests, treeVars, storedVars>>
    /\ UNCHANGED <<editorOpen, uploadLoading, upReq, lastOk, okSeqMax>>
    /\ UNCHANGED analyzerVars
    /\ UNCHANGED storeVars
    /\ UNCHANGED healthVars
    /\ UNCHANGED viewVars
    /\ UNCHANGED structureVars

\* handleAnalyzeStored: response.json() or response.text() settles; finally
StoredBodySettles ==
    /\ stReq.pc = "body"
    /\ \/ /\ stReq.ok
          /\ \E data \in Results :
                /\ analysisResult' = setAnalysisResult(analysisResult, data)
                /\ Arrived(stReq, data)
          /\ notify("success")
       \/ /\ notify("error")
          /\ UNCHANGED <<analysisResult, lastOk, okSeqMax>>
    /\ analysisLoading' = FALSE
    /\ stopProgress
    /\ stReq' = IdleReq
    /\ UNCHANGED <<mode, zipFile, nRequests, treeVars, storedVars>>
    /\ UNCHANGED <<editorOpen, uploadLoading, upReq>>
    /\ UNCHANGED analyzerVars
    /\ UNCHANGED storeVars
    /\ UNCHANGED healthVars
    /\ UNCHANGED viewVars
    /\ UNCHANGED structureVars

HomeInit ==
    /\ TreeIdle /\ UiIdle /\ HomeIdle /\ AnalyzerIdle /\ StoreIdle /\ HealthIdle /\ ViewIdle
    /\ StructureIdle("/")

HomeNext ==
    \/ \E m \in Modes : SetMode(m)
    \/ \E f \in ZipFiles \cup {Null} : ChooseZip(f)
    \/ \E i \in 1..Len(storedItems) : SelectStored(i)
    \/ RefreshClick
    \/ RefreshSettles
    \/ UploadAnalyzeClick
    \/ UploadFetchSettles
    \/ UploadBodySettles
    \/ StoredAnalyzeClick
    \/ StoredFetchSettles
    \/ StoredBodySettles
    \/ HomeTick
    \/ ResetFires

SpecHome == HomeInit /\ [][HomeNext]_vars

(* ----------- AnalyzerPageInner (src/app/analyzer/page.tsx) ------------ *)
\* value.startsWith(prefix)
StartsWith(value, prefix) ==
    Len(prefix) <= Len(value) /\ SubSeq(value, 1, Len(prefix)) = prefix

\* value.endsWith(suffix)
EndsWith(value, suffix) ==
    /\ Len(suffix) <= Len(value)
    /\ SubSeq(value, Len(value) - Len(suffix) + 1, Len(value)) = suffix

\* "http://", "https://", "git@", "ssh://"
GitPrefixes ==
    {<<104, 116, 116, 112, 58, Slash, Slash>>,
     <<104, 116, 116, 112, 115, 58, Slash, Slash>>,
     <<103, 105, 116, 64>>,
     <<115, 115, 104, 58, Slash, Slash>>}

\* ".git"
DotGit == <<46, 103, 105, 116>>

\* the values typed into the path field: "", " ", "/s" and "a.git"
DirInputs == {<<>>, <<Space>>, <<Slash, 115>>, <<97>> \o DotGit}

\* the values typed into the repository field: "" and "g"
GitInputs == {<<>>, <<103>>}

\* payload.entries of GET /api/directory-structure
DirListings ==
    {<<>>,
     <<[type |-> "folder", name |-> <<115>>, path |-> <<Slash, 115>>, level |-> 0],
       [type |-> "file", name |-> <<97>>, path |-> FileSA, level |-> 1]>>}

\* String.prototype.trim on the spaces of the model
RECURSIVE Trim(_)
Trim(s) ==
    IF s = <<>> THEN s
    ELSE IF Head(s) = Space THEN Trim(Tail(s))
    ELSE IF Last(s) = Space THEN Trim(Front(s))
    ELSE s

\* isGitUrl of src/app/page.tsx
isGitUrl(value) ==
    LET target == Trim(value) IN
    /\ target # <<>>
    /\ \/ \E prefix \in GitPrefixes : StartsWith(target, prefix)
       \/ EndsWith(target, DotGit)

\* the backend route each analyze handler posts to
Endpoint(kind) ==
    CASE kind = "local" -> "/analyze"
      [] kind = "git" -> "/git-clone"
      [] kind = "zip" -> "/upload-zip"
      [] OTHER -> ""

\* the entries onAnalyzeGit pushes for one path
SyntheticOf(p) ==
    LET parts == Parts(p) IN
    [i \in 1..Len(parts) |->
        [type |-> IF i = Len(parts) THEN "file" ELSE "folder",
         name |-> parts[i], path |-> Agg(parts, i), level |-> i - 1]]

\* the synthetic entries of onAnalyzeGit, path after path
RECURSIVE SyntheticEntries(_, _)
SyntheticEntries(paths, i) ==
    IF i > Len(paths) THEN <<>>
    ELSE SyntheticOf(paths[i]) \o SyntheticEntries(paths, i + 1)

\* treeData = useMemo(() => buildTree(treeEntries), [treeEntries])
treeData == buildTree(treeEntries)

\* the defaults of fetchDirectoryTree: folders of level <= 1 are expanded
Defaults(entries) ==
    LET paths == {entries[i].path : i \in {k \in 1..Len(entries) :
                                     entries[k].type = "folder" /\ entries[k].level <= 1}}
    IN IF paths = {} THEN <<>> ELSE [p \in paths |-> TRUE]

\* startProgress of AnalyzerPageInner
analyzerStartProgress ==
    LET live == IF timerRef # 0 THEN Cleared(intervals, timerRef) ELSE intervals
        id   == NewTimerId(live)
    IN /\ progressPct' = 1
       /\ timerRef' = id
       /\ intervals' = live \cup {id}
       /\ UNCHANGED resetTimeouts

\* stopProgress of AnalyzerPageInner: the reference is kept
analyzerStopProgress ==
    /\ intervals' = IF timerRef # 0 THEN Cleared(intervals, timerRef) ELSE intervals
    /\ UNCHANGED timerRef
    /\ progressPct' = 100
    /\ resetTimeouts' = resetTimeouts + 1

\* finally { setLoading(false); stopProgress(); }
analyzerFinally ==
    /\ loading' = FALSE
    /\ analyzerStopProgress
    /\ anReq' = AnalyzerIdleReq

\* the interval callback: prev => Math.min(prev + (Math.random()*6+1), 92)
AnalyzerTick ==
    /\ intervals # {}
    /\ \E inc \in Increments :
          progressPct' = IF progressPct + inc < AnalyzerCap THEN progressPct + inc
                         ELSE AnalyzerCap
    /\ UNCHANGED <<timerRef, intervals, resetTimeouts>>
    /\ UNCHANGED <<mode, zipFile, analysisResult, nRequests>>
    /\ UNCHANGED <<treeVars, homeVars, analyzerVars>>
    /\ UNCHANGED storeVars
    /\ UNCHANGED healthVars
    /\ UNCHANGED viewVars
    /\ UNCHANGED structureVars

\* the timeout callback of stopProgress: () => setProgressPct(0)
AnalyzerResetFires ==
    /\ resetTimeouts > 0
    /\ progressPct' = 0
    /\ resetTimeouts' = resetTimeouts - 1
    /\ UNCHANGED <<timerRef, intervals>>
    /\ UNCHANGED <<mode, zipFile, analysisResult, nRequests>>
    /\ UNCHANGED <<treeVars, homeVars, analyzerVars>>
    /\ UNCHANGED storeVars
    /\ UNCHANGED healthVars
    /\ UNCHANGED viewVars
    /\ UNCHANGED structureVars

\* a mode button: setMode(m)
AnalyzerSetMode(m) ==
    /\ mode' = m
    /\ UNCHANGED <<zipFile, analysisResult, progressVars, nRequests>>
    /\ UNCHANGED <<treeVars, homeVars, analyzerVars>>
    /\ UNCHANGED storeVars
    /\ UNCHANGED healthVars
    /\ UNCHANGED viewVars
    /\ UNCHANGED structureVars

\* the path field of local mode: setDirectoryPath(e.target.value)
SetDirectoryPath(p) ==
    /\ mode = "local"
    /\ directoryPath' = p
    /\ UNCHANGED <<gitUrl, loading, treeEntries, expanded, anReq, dirReqs, treeOfResult>>
    /\ UNCHANGED <<uiVars, treeVars, homeVars>>
    /\ UNCHANGED storeVars
    /\ UNCHANGED healthVars
    /\ UNCHANGED viewVars
    /\ UNCHANGED structureVars

\* the repository field of git mode: setGitUrl(e.target.value)
SetGitUrl(u) ==
    /\ mode = "git"
    /\ gitUrl' = u
    /\ UNCHANGED <<directoryPath, loading, treeEntries, expanded, anReq, dirReqs, treeOfResult>>
    /\ UNCHANGED <<uiVars, treeVars, homeVars>>
    /\ UNCHANGED storeVars
    /\ UNCHANGED healthVars
    /\ UNCHANGED viewVars
    /\ UNCHANGED structureVars

\* the file input of upload mode: setZipFile(e.target.files?.[0] ?? null)
AnalyzerChooseZip(f) ==
    /\ mode = "upload"
    /\ zipFile' = f
    /\ UNCHANGED <<mode, analysisResult, progressVars, nRequests>>
    /\ UNCHANGED <<treeVars, homeVars, analyzerVars>>
    /\ UNCHANGED storeVars
    /\ UNCHANGED healthVars
    /\ UNCHANGED viewVars
    /\ UNCHANGED structureVars

\* isExpanded of renderNodes: expanded[node.path] ?? node.level <= 1
isExpanded(map, node) ==
    IF node.path \in DOMAIN map THEN map[node.path] ELSE node.level <= 1

\* prev => ({ ...prev, [p]: !prev[p] })
toggle(map, p) ==
    [q \in DOMAIN map \cup {p} |->
        IF q = p THEN ~(p \in DOMAIN map /\ map[p]) ELSE map[q]]

\* the nodes renderNodes draws: every node of the list, and the children of
\* the folders that are displayed expanded
RECURSIVE renderNodes(_, _)
renderNodes(nodes, map) ==
    UNION {{nodes[j]} \cup
           (IF nodes[j].type = "folder" /\ isExpanded(map, nodes[j])
            THEN renderNodes(nodes[j].children, map) ELSE {}) : j \in 1..Len(nodes)}

\* the folder nodes drawn, each with its toggle button
FolderNodes == {n \in renderNodes(treeData, expanded) : n.type = "folder"}

\* a click on the row of a folder: toggle(node.path)
Toggle(p) ==
    /\ \E n \in FolderNodes : n.path = p
    /\ expanded' = toggle(expanded, p)
    /\ UNCHANGED <<directoryPath, gitUrl, loading, treeEntries, anReq, dirReqs, treeOfResult>>
    /\ UNCHANGED <<uiVars, treeVars, homeVars>>
    /\ UNCHANGED storeVars
    /\ UNCHANGED healthVars
    /\ UNCHANGED viewVars
    /\ UNCHANGED structureVars

\* "preview structure": fetchDirectoryTree(directoryPath) up to its fetch
PreviewClick ==
    /\ mode = "local"
    /\ Trim(directoryPath) # <<>>
    /\ nRequests < MaxAnalyzerRequests
    /\ nRequests' = nRequests + 1
    /\ dirReqs' = dirReqs + 1
    /\ UNCHANGED <<directoryPath, gitUrl, loading, treeEntries, expanded, anReq, treeOfResult>>
    /\ UNCHANGED <<mode, zipFile, analysisResult, progressVars>>
    /\ UNCHANGED <<treeVars, homeVars>>
    /\ UNCHANGED storeVars
    /\ UNCHANGED healthVars
    /\ UNCHANGED viewVars
    /\ UNCHANGED structureVars

\* fetchDirectoryTree once its fetch has settled: entries are stored only
\* when the answer is 2xx and its body parses
directoryTreeSettles(byAnalyze) ==
    \/ \E entries \in DirListings :
          /\ treeEntries' = entries
          /\ expanded' = Defaults(entries)
          /\ treeOfResult' = byAnalyze
    \/ UNCHANGED <<treeEntries, expanded, treeOfResult>>

\* the fetchDirectoryTree of "preview structure" settles
PreviewSettles ==
    /\ dirReqs > 0
    /\ dirReqs' = dirReqs - 1
    /\ directoryTreeSettles(FALSE)
    /\ UNCHANGED <<directoryPath, gitUrl, loading, anReq>>
    /\ UNCHANGED <<uiVars, treeVars, homeVars>>
    /\ UNCHANGED storeVars
    /\ UNCHANGED healthVars
    /\ UNCHANGED viewVars
    /\ UNCHANGED structureVars

\* onAnalyzeLocal / onAnalyzeGit / onAnalyzeZip up to the fetch
analyzeStart(kind) ==
    /\ ~loading
    /\ nRequests < MaxAnalyzerRequests
    /\ nRequests' = nRequests + 1
    /\ loading' = TRUE
    /\ analyzerStartProgress
    /\ anReq' = [pc |-> "fetch", kind |-> kind, ok |-> FALSE, json |-> FALSE]
    /\ UNCHANGED <<directoryPath, gitUrl, treeEntries, expanded, dirReqs, treeOfResult>>
    /\ UNCHANGED <<mode, zipFile, analysisResult>>
    /\ UNCHANGED <<treeVars, homeVars>>
    /\ UNCHANGED storeVars
    /\ UNCHANGED healthVars
    /\ UNCHANGED viewVars
    /\ UNCHANGED structureVars

AnalyzeLocalClick ==
    /\ mode = "local"
    /\ Trim(directoryPath) # <<>>
    /\ analyzeStart("local")

AnalyzeGitClick ==
    /\ mode = "git"
    /\ Trim(gitUrl) # <<>>
    /\ analyzeStart("git")

AnalyzeZipClick ==
    /\ mode = "upload"
    /\ zipFile # Null
    /\ analyzeStart("zip")

\* await fetch(...): answered, 2xx or not, with a JSON body or not; or rejects
AnalyzeFetchSettles ==
    /\ anReq.pc = "fetch"
    /\ \/ /\ \E ok \in BOOLEAN, json \in BOOLEAN :
                anReq' = [anReq EXCEPT !.pc = "body", !.ok = ok, !.json = json]
          /\ UNCHANGED <<loading, progressVars>>
       \/ analyzerFinally
    /\ UNCHANGED <<directoryPath, gitUrl, treeEntries, expanded, dirReqs, treeOfResult>>
    /\ UNCHANGED <<mode, zipFile, analysisResult, nRequests>>
    /\ UNCHANGED <<treeVars, homeVars>>
    /\ UNCHANGED storeVars
    /\ UNCHANGED healthVars
    /\ UNCHANGED viewVars
    /\ UNCHANGED structureVars

\* the body a response carries when it parses
Bodies(req) == IF req.ok THEN Results ELSE {ErrorBody}

\* const data = await res.json(); setAnalysisResult(data); then, by handler:
\* the directory fetch (local), the synthetic entries (git), nothing (zip)
AnalyzeBodySettles ==
    /\ anReq.pc = "body"
    /\ IF anReq.json
       THEN \E data \in Bodies(anReq) :
               /\ analysisResult' = setAnalysisResult(analysisResult, data)
               /\ treeOfResult' = (anReq.kind = "git")
               /\ IF anReq.kind = "local"
                  THEN /\ anReq' = [anReq EXCEPT !.pc = "dir"]
                       /\ UNCHANGED <<loading, progressVars, treeEntries>>
                  ELSE /\ treeEntries' =
                             IF anReq.kind = "git"
                             THEN SyntheticEntries(filePaths(data), 1)
                             ELSE treeEntries
                       /\ analyzerFinally
       ELSE /\ UNCHANGED <<analysisResult, treeEntries, treeOfResult>>
            /\ analyzerFinally
    /\ UNCHANGED <<directoryPath, gitUrl, expanded, dirReqs>>
    /\ UNCHANGED <<mode, zipFile, nRequests>>
    /\ UNCHANGED <<treeVars, homeVars>>
    /\ UNCHANGED storeVars
    /\ UNCHANGED healthVars
    /\ UNCHANGED viewVars
    /\ UNCHANGED structureVars

\* onAnalyzeLocal: await fetchDirectoryTree(directoryPath.trim()); finally
AnalyzeDirSettles ==
    /\ anReq.pc = "dir"
    /\ directoryTreeSettles(TRUE)
    /\ analyzerFinally
    /\ UNCHANGED <<directoryPath, gitUrl, dirReqs>>
    /\ UNCHANGED <<mode, zipFile, analysisResult, nRequests>>
    /\ UNCHANGED <<treeVars, homeVars>>
    /\ UNCHANGED storeVars
    /\ UNCHANGED healthVars
    /\ UNCHANGED viewVars
    /\ UNCHANGED structureVars

AnalyzerInit ==
    /\ TreeIdle /\ UiIdle /\ HomeIdle /\ AnalyzerIdle /\ StoreIdle /\ HealthIdle /\ ViewIdle
    /\ StructureIdle("/analyzer")

AnalyzerNext ==
    \/ \E m \in Modes : AnalyzerSetMode(m)
    \/ \E p \in DirInputs : SetDirectoryPath(p)
    \/ \E u \in GitInputs : SetGitUrl(u)
    \/ \E f \in ZipFiles \cup {Null} : AnalyzerChooseZip(f)
    \/ PreviewClick
    \/ PreviewSettles
    \/ AnalyzeLocalClick
    \/ AnalyzeGitClick
    \/ AnalyzeZipClick
    \/ AnalyzeFetchSettles
    \/ AnalyzeBodySettles
    \/ AnalyzeDirSettles
    \/ AnalyzerTick
    \/ AnalyzerResetFires

SpecAnalyzer == AnalyzerInit /\ [][AnalyzerNext]_vars

\* The tree of the analyzer view: the handlers that set the tree, the map and
\* the result, and the folder toggles.  The callbacks of the progress timers
\* read and write progressPct alone and are left out.
ExplorerInit == AnalyzerInit

ExplorerNext ==
    \/ \E m \in Modes : AnalyzerSetMode(m)
    \/ \E p \in DirInputs : SetDirectoryPath(p)
    \/ \E u \in GitInputs : SetGitUrl(u)
    \/ \E f \in ZipFiles \cup {Null} : AnalyzerChooseZip(f)
    \/ PreviewClick
    \/ PreviewSettles
    \/ AnalyzeLocalClick
    \/ AnalyzeGitClick
    \/ AnalyzeZipClick
    \/ AnalyzeFetchSettles
    \/ AnalyzeBodySettles
    \/ AnalyzeDirSettles
    \/ \E n \in FolderNodes : Toggle(n.path)

SpecExplorer == ExplorerInit /\ [][ExplorerNext]_vars

(* ------- HomeContent: store and delete handlers (src/app/page.tsx) ----- *)
\* what a store handler makes of analysisResult: it never calls
\* setAnalysisResult, the body's data only feeds the notice text
StoresAsResult(prev, data) == data

afterStore(prev, data) == prev

NeverReturnsEarly(ok) == FALSE

\* if (!response.ok) { ...; return; }
returnsEarly(ok) == ~ok

\* await refreshStoredItems() up to its fetch, inside a store or delete handler
refreshAwaited ==
    /\ storedLoading' = TRUE
    /\ UNCHANGED <<storedItems, storedSelection, listReqs>>

\* what a store or delete handler leaves alone in every step
storeFrame ==
    /\ UNCHANGED <<mode, zipFile, progressVars, treeVars>>
    /\ UNCHANGED <<editorOpen, uploadLoading, analysisLoading, upReq, stReq, lastOk, okSeqMax>>
    /\ UNCHANGED <<directoryPath, gitUrl, loading, treeEntries, expanded, anReq, dirReqs,
                   treeOfResult>>

\* the repository field of git mode: setGitUrl(event.target.value)
HomeSetGitUrl(u) ==
    /\ mode = "git"
    /\ gitUrl' = u
    /\ UNCHANGED <<directoryPath, loading, treeEntries, expanded, anReq, dirReqs, treeOfResult>>
    /\ UNCHANGED <<uiVars, treeVars, homeVars, storeVars>>
    /\ UNCHANGED healthVars
    /\ UNCHANGED viewVars
    /\ UNCHANGED structureVars

\* handleUploadStore up to its fetch
UploadStoreClick ==
    /\ mode = "upload"
    /\ ~uploadStoring
    /\ IF zipFile = Null
       THEN /\ notify("error")
            /\ UNCHANGED <<uploadStoring, zipStoreReq, nRequests>>
       ELSE /\ nRequests < MaxStoreOps
            /\ nRequests' = nRequests + 1
            /\ feedback' = Null
            /\ uploadStoring' = TRUE
            /\ zipStoreReq' = "fetch"
    /\ storeFrame
    /\ UNCHANGED <<analysisResult, storedVars, gitStoreLoading, storedDeleting, gitStoreReq, delReq>>
    /\ UNCHANGED healthVars
    /\ UNCHANGED viewVars
    /\ UNCHANGED structureVars

\* handleUploadStore: POST /store/upload-zip is answered or rejects
UploadStoreAnswered ==
    /\ zipStoreReq = "fetch"
    /\ \/ \E data \in Results :
             /\ analysisResult' = afterStore(analysisResult, data)
             /\ notify("success")
             /\ refreshAwaited
             /\ zipStoreReq' = "refresh"
             /\ UNCHANGED uploadStoring
       \/ /\ notify("error")
          /\ uploadStoring' = FALSE
          /\ zipStoreReq' = "idle"
          /\ UNCHANGED <<analysisResult, storedVars>>
    /\ storeFrame
    /\ UNCHANGED <<nRequests, gitStoreLoading, storedDeleting, gitStoreReq, delReq>>
    /\ UNCHANGED healthVars
    /\ UNCHANGED viewVars
    /\ UNCHANGED structureVars

\* handleUploadStore: the awaited refreshStoredItems settles; finally
UploadStoreRefreshed ==
    /\ zipStoreReq = "refresh"
    /\ refreshAnswered
    /\ uploadStoring' = FALSE
    /\ zipStoreReq' = "idle"
    /\ storeFrame
    /\ UNCHANGED <<analysisResult, nRequests, listReqs>>
    /\ UNCHANGED <<gitStoreLoading, storedDeleting, gitStoreReq, delReq>>
    /\ UNCHANGED healthVars
    /\ UNCHANGED viewVars
    /\ UNCHANGED structureVars

\* handleGitStore up to its fetch
GitStoreClick ==
    /\ mode = "git"
    /\ ~gitStoreLoading
    /\ IF Trim(gitUrl) = <<>>
       THEN /\ notify("error")
            /\ UNCHANGED <<gitStoreLoading, gitStoreReq, nRequests>>
       ELSE /\ nRequests < MaxStoreOps
            /\ nRequests' = nRequests + 1
            /\ feedback' = Null
            /\ gitStoreLoading' = TRUE
            /\ gitStoreReq' = "fetch"
    /\ storeFrame
    /\ UNCHANGED <<analysisResult, storedVars, uploadStoring, storedDeleting, zipStoreReq, delReq>>
    /\ UNCHANGED healthVars
    /\ UNCHANGED viewVars
    /\ UNCHANGED structureVars

\* handleGitStore: POST /store/git-clone is answered or rejects
GitStoreAnswered ==
    /\ gitStoreReq = "fetch"
    /\ \/ \E data \in Results :
             /\ analysisResult' = afterStore(analysisResult, data)
             /\ notify("success")
             /\ refreshAwaited
             /\ gitStoreReq' = "refresh"
             /\ UNCHANGED gitStoreLoading
       \/ /\ notify("error")
          /\ gitStoreLoading' = FALSE
          /\ gitStoreReq' = "idle"
          /\ UNCHANGED <<analysisResult, storedVars>>
    /\ storeFrame
    /\ UNCHANGED <<nRequests, uploadStoring, storedDeleting, zipStoreReq, delReq>>
    /\ UNCHANGED healthVars
    /\ UNCHANGED viewVars
    /\ UNCHANGED structureVars

\* handleGitStore: the awaited refreshStoredItems settles; finally
GitStoreRefreshed ==
    /\ gitStoreReq = "refresh"
    /\ refreshAnswered
    /\ gitStoreLoading' = FALSE
    /\ gitStoreReq' = "idle"
    /\ storeFrame
    /\ UNCHANGED <<analysisResult, nRequests, listReqs>>
    /\ UNCHANGED <<uploadStoring, storedDeleting, zipStoreReq, delReq>>
    /\ UNCHANGED healthVars
    /\ UNCHANGED viewVars
    /\ UNCHANGED structureVars

\* handleDeleteStored up to its fetch; the button is disabled while a delete
\* runs or nothing is selected
DeleteClick ==
    /\ mode = "stored"
    /\ ~storedDeleting
    /\ storedSelection # ""
    /\ nRequests < MaxStoreOps
    /\ nRequests' = nRequests + 1
    /\ feedback' = Null
    /\ storedDeleting' = TRUE
    /\ delReq' = [pc |-> "fetch", name |-> storedSelection, ok |-> FALSE]
    /\ storeFrame
    /\ UNCHANGED <<analysisResult, storedVars, uploadStoring, gitStoreLoading, zipStoreReq, gitStoreReq>>
    /\ UNCHANGED healthVars
    /\ UNCHANGED viewVars
    /\ UNCHANGED structureVars

\* handleDeleteStored: the DELETE is answered (2xx or not) or rejects
DeleteAnswered ==
    /\ delReq.pc = "fetch"
    /\ \/ \E ok \in BOOLEAN :
             IF returnsEarly(ok)
             THEN /\ notify("error")
                  /\ storedDeleting' = FALSE
                  /\ delReq' = [pc |-> "idle", name |-> "", ok |-> FALSE]
                  /\ UNCHANGED storedVars
             ELSE /\ notify("success")
                  /\ refreshAwaited
                  /\ delReq' = [delReq EXCEPT !.pc = "refresh", !.ok = ok]
                  /\ UNCHANGED storedDeleting
       \/ /\ notify("error")
          /\ storedDeleting' = FALSE
          /\ delReq' = [pc |-> "idle", name |-> "", ok |-> FALSE]
          /\ UNCHANGED storedVars
    /\ storeFrame
    /\ UNCHANGED <<analysisResult, nRequests, uploadStoring, gitStoreLoading, zipStoreReq, gitStoreReq>>
    /\ UNCHANGED healthVars
    /\ UNCHANGED viewVars
    /\ UNCHANGED structureVars

\* handleDeleteStored: the awaited refreshStoredItems settles; finally
DeleteRefreshed ==
    /\ delReq.pc = "refresh"
    /\ refreshAnswered
    /\ storedDeleting' = FALSE
    /\ delReq' = [pc |-> "idle", name |-> "", ok |-> FALSE]
    /\ storeFrame
    /\ UNCHANGED <<analysisResult, nRequests, listReqs>>
    /\ UNCHANGED <<uploadStoring, gitStoreLoading, zipStoreReq, gitStoreReq>>
    /\ UNCHANGED healthVars
    /\ UNCHANGED viewVars
    /\ UNCHANGED structureVars

\* The catalog handlers of HomeContent beside handleUploadAnalyze.  The interval
\* callback of the progress indicator is checked in SpecHome: it writes
\* progressPct only, which no handler reads.
StoreInit == HomeInit

StoreNext ==
    \/ \E m \in Modes : SetMode(m)
    \/ \E f \in ZipFiles \cup {Null} : ChooseZip(f)
    \/ \E u \in GitInputs : HomeSetGitUrl(u)
    \/ \E i \in 1..Len(storedItems) : SelectStored(i)
    \/ RefreshClick
    \/ RefreshSettles
    \/ UploadAnalyzeClick
    \/ UploadFetchSettles
    \/ UploadBodySettles
    \/ ResetFires
    \/ UploadStoreClick
    \/ UploadStoreAnswered
    \/ UploadStoreRefreshed
    \/ GitStoreClick
    \/ GitStoreAnswered
    \/ GitStoreRefreshed
    \/ DeleteClick
    \/ DeleteAnswered
    \/ DeleteRefreshed

SpecStore == StoreInit /\ [][StoreNext]_vars

(* ------- HomeContent: the health effect (src/app/page.tsx) ------------- *)
\* checkHealth up to its fetch
checkHealthIssued == healthChecks' = Append(healthChecks, "pending")

KeepsInterval(timer) == timer

\* clearInterval(interval) in the cleanup
intervalAfterCleanup(timer) == FALSE

\* controller.abort(): every fetch that holds the signal and is pending rejects
abortAll(checks) ==
    [i \in 1..Len(checks) |-> IF checks[i] = "pending" THEN "aborted" ELSE checks[i]]

\* the effect body at mount: checkHealth(); setInterval(checkHealth, 15000)
HealthMount ==
    /\ healthPhase = "initial"
    /\ healthPhase' = "mounted"
    /\ checkHealthIssued
    /\ healthTimer' = TRUE
    /\ UNCHANGED apiHealthy
    /\ UNCHANGED <<treeVars, uiVars, homeVars, analyzerVars, storeVars>>
    /\ UNCHANGED viewVars
    /\ UNCHANGED structureVars

\* the interval callback: checkHealth()
HealthTick ==
    /\ healthTimer
    /\ Len(healthChecks) < MaxHealthChecks
    /\ checkHealthIssued
    /\ UNCHANGED <<apiHealthy, healthPhase, healthTimer>>
    /\ UNCHANGED <<treeVars, uiVars, homeVars, analyzerVars, storeVars>>
    /\ UNCHANGED viewVars
    /\ UNCHANGED structureVars

\* checkHealth after its fetch: 2xx sets "online"; a non-2xx answer, a
\* rejection or an abort sets "offline"
HealthSettles(i) ==
    /\ i \in 1..Len(healthChecks)
    /\ healthChecks[i] # "done"
    /\ healthChecks' = [healthChecks EXCEPT ![i] = "done"]
    /\ IF healthChecks[i] = "aborted"
       THEN apiHealthy' = "offline"
       ELSE \E status \in {"online", "offline"} : apiHealthy' = status
    /\ UNCHANGED <<healthPhase, healthTimer>>
    /\ UNCHANGED <<treeVars, uiVars, homeVars, analyzerVars, storeVars>>
    /\ UNCHANGED viewVars
    /\ UNCHANGED structureVars

\* the cleanup at unmount: controller.abort(); clearInterval(interval)
HealthUnmount ==
    /\ healthPhase = "mounted"
    /\ healthPhase' = "unmounted"
    /\ healthChecks' = abortAll(healthChecks)
    /\ healthTimer' = intervalAfterCleanup(healthTimer)
    /\ UNCHANGED apiHealthy
    /\ UNCHANGED <<treeVars, uiVars, homeVars, analyzerVars, storeVars>>
    /\ UNCHANGED viewVars
    /\ UNCHANGED structureVars

\* The health effect beside the mode buttons and the catalog refresh they start.
HealthInit == HomeInit

HealthNext ==
    \/ HealthMount
    \/ HealthTick
    \/ \E i \in 1..MaxHealthChecks : HealthSettles(i)
    \/ HealthUnmount
    \/ \E m \in Modes : healthPhase = "mounted" /\ SetMode(m)
    \/ healthPhase = "mounted" /\ RefreshSettles

SpecHealth == HealthInit /\ [][HealthNext]_vars

(* ------- HomeContent: the structure preview; retrying an operation ----- *)
\* the path field of local mode: setDirectoryPath(event.target.value)
HomeSetDirectoryPath(p) ==
    /\ mode = "local"
    /\ directoryPath' = p
    /\ UNCHANGED <<gitUrl, loading, treeEntries, expanded, anReq, dirReqs, treeOfResult>>
    /\ UNCHANGED <<uiVars, treeVars, homeVars, storeVars>>
    /\ UNCHANGED healthVars
    /\ UNCHANGED viewVars
    /\ UNCHANGED structureVars

\* "Preview Structure": fetchDirectoryStructure up to its fetch; the button is
\* disabled while structureLoading and for a Git URL
StructureClick ==
    /\ mode = "local"
    /\ ~structureLoading
    /\ ~isGitUrl(Trim(directoryPath))
    /\ IF Trim(directoryPath) = <<>>
       THEN /\ notify("error")
            /\ UNCHANGED <<nRequests, structureLoading, structureReq>>
       ELSE /\ nRequests < MaxRequests
            /\ nRequests' = nRequests + 1
            /\ feedback' = Null
            /\ structureLoading' = TRUE
            /\ structureReq' = "fetch"
    /\ UNCHANGED <<route, directoryStructure>>
    /\ UNCHANGED <<mode, zipFile, analysisResult, progressVars, treeVars>>
    /\ UNCHANGED <<editorOpen, uploadLoading, analysisLoading, storedVars, upReq, stReq,
                   lastOk, okSeqMax>>
    /\ UNCHANGED <<analyzerVars, storeVars>>
    /\ UNCHANGED healthVars
    /\ UNCHANGED viewVars

StaysLoading(flag) == flag

\* finally { setStructureLoading(false); }
structureFinally(flag) == FALSE

\* fetchDirectoryStructure from the answer of its fetch to its finally: a 2xx
\* answer stores the entries, a non-2xx answer or a rejection is notified
StructureSettles ==
    /\ structureReq = "fetch"
    /\ \/ \E entries \in DirListings :
             /\ directoryStructure' = entries
             /\ notify("success")
       \/ /\ notify("error")
          /\ UNCHANGED directoryStructure
    /\ structureLoading' = structureFinally(structureLoading)
    /\ structureReq' = "idle"
    /\ UNCHANGED route
    /\ UNCHANGED <<uiVars, treeVars>>
    /\ UNCHANGED <<editorOpen, uploadLoading, analysisLoading, storedVars, upReq, stReq,
                   lastOk, okSeqMax>>
    /\ UNCHANGED <<analyzerVars, storeVars>>
    /\ UNCHANGED healthVars
    /\ UNCHANGED viewVars

\* Every backend operation of the mounted page: HomeContent's analyze, store,
\* delete, refresh and preview handlers, or AnalyzerPageInner's handlers.
RetryInit ==
    /\ TreeIdle /\ UiIdle /\ HomeIdle /\ AnalyzerIdle /\ StoreIdle /\ HealthIdle /\ ViewIdle
    /\ \E r \in {"/", "/analyzer"} : StructureIdle(r)

HomeOperations ==
    \/ \E m \in Modes : SetMode(m)
    \/ \E f \in ZipFiles \cup {Null} : ChooseZip(f)
    \/ \E u \in GitInputs : HomeSetGitUrl(u)
    \/ \E p \in DirInputs : HomeSetDirectoryPath(p)
    \/ \E i \in 1..Len(storedItems) : SelectStored(i)
    \/ RefreshClick
    \/ RefreshSettles
    \/ UploadAnalyzeClick
    \/ UploadFetchSettles
    \/ UploadBodySettles
    \/ StoredAnalyzeClick
    \/ StoredFetchSettles
    \/ StoredBodySettles
    \/ UploadStoreClick
    \/ UploadStoreAnswered
    \/ UploadStoreRefreshed
    \/ GitStoreClick
    \/ GitStoreAnswered
    \/ GitStoreRefreshed
    \/ DeleteClick
    \/ DeleteAnswered
    \/ DeleteRefreshed
    \/ StructureClick
    \/ StructureSettles

AnalyzerOperations ==
    \/ \E m \in Modes : AnalyzerSetMode(m)
    \/ \E p \in DirInputs : SetDirectoryPath(p)
    \/ \E u \in GitInputs : SetGitUrl(u)
    \/ \E f \in ZipFiles \cup {Null} : AnalyzerChooseZip(f)
    \/ PreviewClick
    \/ PreviewSettles
    \/ AnalyzeLocalClick
    \/ AnalyzeGitClick
    \/ AnalyzeZipClick
    \/ AnalyzeFetchSettles
    \/ AnalyzeBodySettles
    \/ AnalyzeDirSettles

\* at most MaxRetryRequests requests are started in all
RetryNext ==
    /\ \/ route = "/" /\ HomeOperations
       \/ route = "/analyzer" /\ AnalyzerOperations
    /\ nRequests' <= MaxRetryRequests

\* a request of the mounted page settles
Settles ==
    \/ RefreshSettles
    \/ UploadFetchSettles \/ UploadBodySettles
    \/ StoredFetchSettles \/ StoredBodySettles
    \/ UploadStoreAnswered \/ UploadStoreRefreshed
    \/ GitStoreAnswered \/ GitStoreRefreshed
    \/ DeleteAnswered \/ DeleteRefreshed
    \/ StructureSettles
    \/ PreviewSettles
    \/ AnalyzeFetchSettles \/ AnalyzeBodySettles \/ AnalyzeDirSettles

\* every request resolves: while a request is in flight, one of them settles
RequestsResolve == WF_vars(Settles)

SpecRetry == RetryInit /\ [][RetryNext]_vars /\ RequestsResolve

(* ------------------ HomeContent: what a render derives ---------------- *)
\* "/src/a"
FileSrcA == <<Slash, 115, 114, 99, Slash, 97>>

\* BasicCryptoAnalysis records: arrays present and absent, empty and not; the
\* elements of the arrays are opaque to the page
Analyses ==
    {[file_path |-> FileSA, file_name |-> "a",
      crypto_imports |-> <<1>>, crypto_functions |-> <<1, 2>>],
     [file_path |-> FileSB],
     [file_path |-> FileSrcA, file_name |-> "a", crypto_imports |-> <<>>,
      crypto_functions |-> <<1>>, crypto_patterns_found |-> <<1>>,
      crypto_algorithms_detected |-> <<1, 2>>]}

\* crypto_summary records; "" stands for the falsy entries
Summaries ==
    {[vulnerabilities |-> <<"x", "", "y">>, recommendations |-> <<"y">>],
     [vulnerabilities |-> <<"y", "x">>, recommendations |-> <<>>],
     [recommendations |-> <<"", "r", "r">>]}

\* GeminiReview records: with original_analysis, with and without
\* crypto_summary, and reviews that carry the analysis fields themselves
Reviews ==
    {[original_analysis |-> a, crypto_summary |-> s] : a \in Analyses, s \in Summaries}
    \cup {[original_analysis |-> a] : a \in Analyses}
    \cup {[file_path |-> FileSB, crypto_functions |-> <<1>>,
           crypto_summary |-> [vulnerabilities |-> <<"x">>, recommendations |-> <<"r">>]],
          [original_analysis |-> Null, file_path |-> FileSA, crypto_imports |-> <<1>>]}

\* the folder paths a tree node can carry: "", "/s", "/s/", "/src", "/s/a"
FolderPaths ==
    {<<>>, <<Slash, 115>>, <<Slash, 115, Slash>>, <<Slash, 115, 114, 99>>, FileSA}

\* file_path is the key of a record: no two records of one array share it
DistinctPaths(recs) ==
    \A i, j \in 1..Len(recs) :
        i # j => analysisOfReview(recs[i]).file_path # analysisOfReview(recs[j]).file_path

\* the per-file count of findingsCountByPath
countOf(a) ==
    LengthOf(a, "crypto_imports") + LengthOf(a, "crypto_functions")
    + LengthOf(a, "crypto_patterns_found") + LengthOf(a, "crypto_algorithms_detected")

\* map[a.file_path] = c, entry after entry
RECURSIVE CountsFrom(_, _, _)
CountsFrom(files, i, map) ==
    IF i > Len(files) THEN map
    ELSE LET a == files[i].analysis IN
         CountsFrom(files, i + 1,
                    [p \in DOMAIN map \cup {a.file_path} |->
                        IF p = a.file_path THEN countOf(a) ELSE map[p]])

\* findingsCountByPath
findingsCountByPath(files) == CountsFrom(files, 1, <<>>)

\* the sum of map over the keys in keys
RECURSIVE SumOver(_, _)
SumOver(map, keys) ==
    IF keys = {} THEN 0
    ELSE LET p == CHOOSE q \in keys : TRUE IN map[p] + SumOver(map, keys \ {p})

PrefixPlain(folderPath) == folderPath

\* folderPath.endsWith('/') ? folderPath : folderPath + '/'
prefixOf(folderPath) ==
    IF EndsWith(folderPath, <<Slash>>) THEN folderPath ELSE folderPath \o <<Slash>>

\* getFolderCount(folderPath)
getFolderCount(map, folderPath) ==
    IF folderPath = <<>> THEN 0
    ELSE SumOver(map, {p \in DOMAIN map : StartsWith(p, prefixOf(folderPath))})

\* Array.from(new Set(arr)): the first occurrence of every value, in order
RECURSIVE SetOrder(_, _, _)
SetOrder(arr, i, acc) ==
    IF i > Len(arr) THEN acc
    ELSE SetOrder(arr, i + 1,
                  IF \E j \in 1..Len(acc) : acc[j] = arr[i] THEN acc
                  ELSE Append(acc, arr[i]))

KeepsFalsy(arr) == arr

\* .filter(Boolean)
filterBoolean(arr) == SelectSeq(arr, LAMBDA x : x # "")

\* uniq
uniq(arr) == filterBoolean(SetOrder(arr, 1, <<>>))

\* v.push(...sum.vulnerabilities) (or recommendations), review after review
RECURSIVE Collected(_, _, _)
Collected(reviews, field, i) ==
    IF i > Len(reviews) THEN <<>>
    ELSE (IF "crypto_summary" \in DOMAIN reviews[i]
             /\ LengthOf(reviews[i].crypto_summary, field) > 0
          THEN reviews[i].crypto_summary[field] ELSE <<>>)
         \o Collected(reviews, field, i + 1)

\* findings
findings(result) ==
    LET reviews == IF result # Null /\ LengthOf(result, "detailed_reviews") > 0
                   THEN result.detailed_reviews ELSE <<>> IN
    [vulnerabilities |-> uniq(Collected(reviews, "vulnerabilities", 1)),
     recommendations |-> uniq(Collected(reviews, "recommendations", 1))]

\* arr.reduce((acc, val) => acc + val, 0)
RECURSIVE reduceSum(_, _)
reduceSum(arr, i) == IF i > Len(arr) THEN 0 ELSE arr[i] + reduceSum(arr, i + 1)

ChartOfBasic(result) ==
    IF result = Null \/ LengthOf(result, "basic_analysis") = 0 THEN Null
    ELSE LET n == Len(result.basic_analysis) IN
         LET f == [i \in 1..n |-> LengthOf(result.basic_analysis[i], "crypto_functions")] IN
         LET m == [i \in 1..n |-> LengthOf(result.basic_analysis[i], "crypto_imports")] IN
         LET q == [i \in 1..n |-> LengthOf(result.basic_analysis[i], "crypto_patterns_found")] IN
         [fileNames |-> [i \in 1..n |-> "Unknown"],
          functionCounts |-> f, importCounts |-> m, patternCounts |-> q,
          totals |-> [functions |-> reduceSum(f, 1), imports |-> reduceSum(m, 1),
                      patterns |-> reduceSum(q, 1)]]

\* getChartData
getChartData(result) ==
    LET files == getFilesCollection(result) IN
    IF result = Null \/ Len(files) = 0 THEN Null
    ELSE LET functionCounts ==
                 [i \in 1..Len(files) |-> LengthOf(files[i].analysis, "crypto_functions")]
             importCounts ==
                 [i \in 1..Len(files) |-> LengthOf(files[i].analysis, "crypto_imports")]
             patternCounts ==
                 [i \in 1..Len(files) |-> LengthOf(files[i].analysis, "crypto_patterns_found")]
         IN  [fileNames |-> [i \in 1..Len(files) |->
                                IF "file_name" \in DOMAIN files[i].analysis
                                THEN files[i].analysis.file_name ELSE "Unknown"],
              functionCounts |-> functionCounts,
              importCounts |-> importCounts,
              patternCounts |-> patternCounts,
              totals |-> [functions |-> reduceSum(functionCounts, 1),
                          imports |-> reduceSum(importCounts, 1),
                          patterns |-> reduceSum(patternCounts, 1)]]

\* renderCharts: null without a result, with the charts switched off or
\* without chart data
renderCharts(result, show) == result # Null /\ show /\ getChartData(result) # Null

\* a render of HomeContent: every memo is computed from the result
Render ==
    /\ ~rendered
    /\ rendered' = TRUE
    /\ shownFiles' = getFilesCollection(viewResult)
    /\ shownCounts' = findingsCountByPath(shownFiles')
    /\ shownFolderCount' = getFolderCount(shownCounts', viewFolder)
    /\ shownFindings' = findings(viewResult)
    /\ shownChartData' = getChartData(viewResult)
    /\ shownCharts' = renderCharts(viewResult, showCharts)
    /\ UNCHANGED <<viewResult, viewFolder, showCharts>>
    /\ UNCHANGED <<treeVars, uiVars, homeVars, analyzerVars, storeVars, healthVars>>
    /\ UNCHANGED structureVars

\* the "show charts" checkbox: setShowCharts(e.target.checked), and the render
\* that follows
ToggleCharts ==
    /\ rendered
    /\ showCharts' = ~showCharts
    /\ shownCharts' = renderCharts(viewResult, showCharts')
    /\ UNCHANGED <<viewResult, viewFolder, rendered, shownFiles, shownCounts,
                   shownFolderCount, shownFindings, shownChartData>>
    /\ UNCHANGED <<treeVars, uiVars, homeVars, analyzerVars, storeVars, healthVars>>
    /\ UNCHANGED structureVars

\* The result is null or any AnalysisResult whose arrays are absent or hold at
\* most MaxFiles records; the folder is any of FolderPaths.
ViewInit ==
    /\ TreeIdle /\ UiIdle /\ HomeIdle /\ AnalyzerIdle /\ StoreIdle /\ HealthIdle
    /\ StructureIdle("/")
    /\ viewFolder \in FolderPaths
    /\ \/ viewResult = Null
       \/ \E hasReviews, hasBasic \in BOOLEAN :
          \E k, n \in 0..MaxFiles :
          \E reviews \in [1..k -> Reviews] : \E basics \in [1..n -> Analyses] :
             /\ hasReviews \/ k = 0
             /\ hasBasic \/ n = 0
             /\ DistinctPaths(reviews)
             /\ DistinctPaths(basics)
             /\ viewResult =
                  IF hasReviews /\ hasBasic
                  THEN [status |-> "success", detailed_reviews |-> reviews,
                        basic_analysis |-> basics]
                  ELSE IF hasReviews
                  THEN [status |-> "success", detailed_reviews |-> reviews]
                  ELSE IF hasBasic
                  THEN [status |-> "success", basic_analysis |-> basics]
                  ELSE [status |-> "success"]
    /\ showCharts = TRUE
    /\ rendered = FALSE
    /\ shownFiles = <<>>
    /\ shownCounts = <<>>
    /\ shownFolderCount = 0
    /\ shownFindings = [vulnerabilities |-> <<>>, recommendations |-> <<>>]
    /\ shownChartData = Null
    /\ shownCharts = FALSE

ViewNext == Render \/ ToggleCharts

SpecView == ViewInit /\ [][ViewNext]_vars

(* ----------------------- reading a returned forest -------------------- *)
\* every node of a forest, at any depth
RECURSIVE NodesOf(_)
NodesOf(forest) ==
    UNION {{forest[j]} \cup NodesOf(forest[j].children) : j \in 1..Len(forest)}

\* <<path of a node, path of the node whose children hold it>>; 0 for a root
RECURSIVE ParentPairs(_, _)
ParentPairs(forest, parent) ==
    UNION {{<<forest[j].path, parent>>} \cup
           ParentPairs(forest[j].children, forest[j].path) : j \in 1..Len(forest)}

\* the number of nodes of a forest, counted with repetition
RECURSIVE NodeCount(_)
NodeCount(forest) ==
    IF forest = <<>> THEN 0
    ELSE 1 + NodeCount(Head(forest).children) + NodeCount(Tail(forest))

\* every sibling sequence of a forest
RECURSIVE SiblingLists(_)
SiblingLists(forest) ==
    {forest} \cup UNION {SiblingLists(forest[j].children) : j \in 1..Len(forest)}

\* lexicographic order on code-unit sequences, stated on its own
RECURSIVE LexBefore(_, _)
LexBefore(a, b) ==
    IF b = <<>> THEN FALSE
    ELSE IF a = <<>> THEN TRUE
    ELSE IF Head(a) # Head(b) THEN Head(a) < Head(b)
    ELSE LexBefore(Tail(a), Tail(b))

EntriesBuilt == built /\ builder = "entries"

PathsBuilt == built /\ builder = "paths"

(* ------------------------------- C1 ----------------------------------- *)
\* the parent the claim names for entry c: the latest preceding folder f with
\* a smaller level such that every entry strictly between has a level above
\* f's; 0 when there is none
NearestSurvivingAncestor(es, c) ==
    LET cands == {f \in 1..(c - 1) :
                    /\ es[f].type = "folder"
                    /\ es[f].level < es[c].level
                    /\ \A k \in (f + 1)..(c - 1) : es[k].level > es[f].level}
    IN IF cands = {} THEN 0 ELSE MaxOf(cands)

\* C1: the entry-based builder attaches every entry, exactly once, to its
\* nearest surviving ancestor (a root when there is none), whether or not the
\* levels are contiguous.
C1_NearestAncestor ==
    EntriesBuilt =>
        /\ ParentPairs(outTree, 0) =
             {<<c, NearestSurvivingAncestor(inEntries, c)>> : c \in 1..Len(inEntries)}
        /\ NodeCount(outTree) = Len(inEntries)

\* an entry attached to a folder more than one level above it, after a deeper
\* folder between them was closed
C1_Witness ==
    /\ EntriesBuilt
    /\ \E pr \in ParentPairs(outTree, 0) :
         /\ pr[2] # 0
         /\ inEntries[pr[1]].level > inEntries[pr[2]].level + 1
         /\ \E k \in (pr[2] + 1)..(pr[1] - 1) : inEntries[k].type = "folder"

(* ------------------------------- C7 ----------------------------------- *)
Permuted(paths, f) == [i \in 1..Len(paths) |-> paths[f[i]]]

\* C7: the path-based builder returns the same forest for every permutation
\* of its input list.
C7_OrderIndependent ==
    PathsBuilt =>
        \A f \in Permutations(1..Len(inPaths)) :
            buildTreeFromFilePaths(Permuted(inPaths, f)) = outTree

(* ------------------------------- C8 ----------------------------------- *)
TypesAt(forest, path) == {n.type : n \in {m \in NodesOf(forest) : m.path = path}}

TypedAsFilePath(forest, full) ==
    LET parts == Parts(full) IN
    \A k \in 1..Len(parts) :
        TypesAt(forest, Agg(parts, k)) =
            {IF k = Len(parts) THEN "file" ELSE "folder"}

IsProperPrefix(p, q) == Len(p) < Len(q) /\ SubSeq(q, 1, Len(p)) = p

NoPrefixConflict(paths) ==
    \A i, j \in 1..Len(paths) : ~IsProperPrefix(Parts(paths[i]), Parts(paths[j]))

C9_SiblingsSorted ==
    PathsBuilt =>
        \A sibs \in SiblingLists(outTree) :
            \A j \in 1..(Len(sibs) - 1) : LexBefore(sibs[j].name, sibs[j + 1].name)

\* two siblings that were inserted in descending order
C9_Witness ==
    /\ PathsBuilt
    /\ Len(inPaths) = 2
    /\ Len(outTree) = 2
    /\ Parts(inPaths[1]) # <<>>
    /\ Parts(inPaths[1])[1] = outTree[2].name

(* ------------------------------- C10 ---------------------------------- *)
\* C10: in the forest either builder returns, a file node has no children and
\* a folder node has a children sequence (possibly empty).
C10_NodeShape ==
    built =>
        \A n \in NodesOf(outTree) :
            /\ n.type = "file" => (~n.hasChildren /\ n.children = <<>>)
            /\ n.type = "folder" => n.hasChildren

\* a file placed right after a file under a folder, and a folder left empty
C10_Witness ==
    /\ EntriesBuilt
    /\ \E c \in 2..Len(inEntries) :
         /\ inEntries[c - 1].type = "file"
         /\ inEntries[c].level > inEntries[c - 1].level
    /\ \E n \in NodesOf(outTree) : n.type = "folder" /\ n.children = <<>>
    /\ \E n \in NodesOf(outTree) : n.type = "folder" /\ n.children # <<>>

(* ------------------------------- C3 ----------------------------------- *)
Outstanding(req) == req.pc # "idle"

HomePending == Outstanding(upReq) \/ Outstanding(stReq)

\* C3: progressPct is not 100 while an ingestion request is outstanding, in
\* every interleaving, also when a second request was started while the first
\* was outstanding.
C3_No100WhilePending == HomePending => progressPct # 100

(* ------------------------------- C4 ----------------------------------- *)
\* C4: while an ingestion request is pending progressPct stays strictly between
\* 0 and 100; a reset timeout left over from an earlier request never sets it
\* to 0 while a later request is pending.
C4_NoResetWhilePending ==
    [][(HomePending /\ HomePending') => (progressPct' > 0 /\ progressPct' < 100)]_vars

(* ------------------------------- C5 ----------------------------------- *)
\* C5: after any sequence of requests and mode switches analysisResult is the
\* payload of the successful response that arrived last, whatever the order in
\* which the requests were issued and whatever mode is selected; a mode switch
\* neither cancels nor completes an outstanding request.
C5_LastArrivalWins ==
    /\ [](analysisResult = lastOk.data)
    /\ [][mode' # mode => (upReq' = upReq /\ stReq' = stReq)]_vars

\* the upload response arrived after the response of the stored analysis that
\* was started later, and after the user had left upload mode
C5_Witness ==
    /\ lastOk.seq # 0
    /\ lastOk.seq < okSeqMax
    /\ mode = "stored"
    /\ ~Outstanding(upReq)
    /\ ~Outstanding(stReq)
    /\ analysisResult = lastOk.data

(* ------------------------------- C2 ----------------------------------- *)
\* a response of the analyzer view's analyze request that is not 2xx is settled
FailedAnswer == anReq.pc = "body" /\ ~anReq.ok /\ anReq' # anReq

\* C2: when an ingestion operation fails, the analysis result and the tree
\* entries keep the values they had before the operation.
C2_FailureKeepsState ==
    [][FailedAnswer => (analysisResult' = analysisResult /\ treeEntries' = treeEntries)]_vars

(* ------------------------------- C6 ----------------------------------- *)
\* onAnalyzeGit stores a 2xx answer whose body parsed
GitSucceeds ==
    /\ anReq.pc = "body" /\ anReq.kind = "git" /\ anReq.ok /\ anReq.json
    /\ anReq'.pc = "idle"

\* C6: after a successful Git analyze the displayed tree is the forest the
\* path-based builder produces from the file paths of the returned result.
C6_GitTreeIsPathTree ==
    [][GitSucceeds => buildTree(treeEntries') =
                         buildTreeFromFilePaths(filePaths(analysisResult'))]_vars

(* ------------------------------- C11 ---------------------------------- *)
\* <<path of a node, path of a node above it>>, for every node above it
RECURSIVE AncestorPairs(_, _)
AncestorPairs(forest, above) ==
    UNION {{<<forest[j].path, a>> : a \in above} \cup
           AncestorPairs(forest[j].children, above \cup {forest[j].path}) :
           j \in 1..Len(forest)}

\* folder p precedes c, c lies deeper, and no entry between them has a level
\* at or below p's
Covers(es, p, c) ==
    /\ p < c
    /\ es[p].type = "folder"
    /\ es[c].level > es[p].level
    /\ \A k \in (p + 1)..(c - 1) : es[k].level > es[p].level

\* C11 as stated: every entry c that a folder p covers is an element of
\* p.children.
C11_CoveredIsChild ==
    EntriesBuilt =>
        \A p, c \in 1..Len(inEntries) :
            Covers(inEntries, p, c) => <<c, p>> \in ParentPairs(outTree, 0)

\* C11 amended: every entry c that a folder p covers lies in the subtree of p,
\* and it is an element of p.children when it directly follows p.
C11_CoveredIsDescendant ==
    EntriesBuilt =>
        \A p, c \in 1..Len(inEntries) :
            Covers(inEntries, p, c) =>
                /\ <<c, p>> \in AncestorPairs(outTree, {})
                /\ c = p + 1 => <<c, p>> \in ParentPairs(outTree, 0)

\* a covered entry that is a grandchild of the covering folder, and a covered
\* entry that is its child
C11_Witness ==
    /\ EntriesBuilt
    /\ \E p, c \in 1..Len(inEntries) :
         /\ Covers(inEntries, p, c)
         /\ <<c, p>> \notin ParentPairs(outTree, 0)
         /\ <<p + 1, p>> \in ParentPairs(outTree, 0)

(* ------------------------------- C12 ---------------------------------- *)
\* C12: the roots and the children of every node stand in the relative order
\* of their entries in the input (an entry's path is its input position), and
\* the empty input gives the empty forest.
C12_Stable ==
    EntriesBuilt =>
        /\ \A sibs \in SiblingLists(outTree) :
              \A j \in 1..(Len(sibs) - 1) : sibs[j].path < sibs[j + 1].path
        /\ inEntries = <<>> => outTree = <<>>

\* a folder given a file and then a folder as children, beside a second root
C12_Witness ==
    /\ EntriesBuilt
    /\ Len(outTree) >= 2
    /\ \E n \in NodesOf(outTree) :
         /\ Len(n.children) >= 2
         /\ n.children[1].type = "file"
         /\ n.children[2].type = "folder"

(* ------------------------------- C13 ---------------------------------- *)
\* the step in which the response of req delivers its payload
Succeeds(req) == req.pc = "body" /\ lastOk'.seq = req.seq /\ lastOk.seq # req.seq

\* C13: when an analyze request succeeds while no other request is
\* outstanding, analysisResult afterwards is exactly the payload the response
\* carried, whatever the result was before.
C13_SuccessReplaces ==
    [][((Succeeds(upReq) /\ ~Outstanding(stReq)) \/ (Succeeds(stReq) /\ ~Outstanding(upReq)))
          => analysisResult' = lastOk'.data]_vars

\* two analyze requests have succeeded, the first-issued one last and alone,
\* and its payload is the result
C13_Witness ==
    /\ ~HomePending
    /\ okSeqMax > lastOk.seq
    /\ lastOk.seq > 0
    /\ analysisResult = ResultA

(* ------------------------------- C14 ---------------------------------- *)
\* C14: while the path field holds a Git-shaped input, invoking "preview
\* structure" issues no directory-structure request.
C14_NoPreviewForGit ==
    [][isGitUrl(directoryPath) => dirReqs' <= dirReqs]_vars

(* ------------------------------- C15 ---------------------------------- *)
\* onAnalyzeLocal sends its request
LocalSubmitted == anReq.pc = "idle" /\ anReq'.pc = "fetch" /\ mode = "local"

\* C15: a submitted local-mode input goes to the Git-clone analysis exactly
\* when it is Git-shaped, and to /analyze otherwise.
C15_GitShapedGoesToClone ==
    [][LocalSubmitted =>
          Endpoint(anReq'.kind) =
             IF isGitUrl(directoryPath) THEN "/git-clone" ELSE "/analyze"]_vars

(* ------------------------------- C17 ---------------------------------- *)
\* a refresh of the stored-item catalog settles
RefreshSettled == listReqs' < listReqs

\* the first name of a list, "" for the empty list
FirstName(items) == IF Len(items) = 0 THEN "" ELSE items[1]

\* C17: a refresh that settles either succeeds, and then storedItems is a
\* returned list and storedSelection the name of its first item ("" when it
\* is empty), or fails, and then neither storedItems nor storedSelection
\* changes and an error notice is set.
C17_RefreshOutcome ==
    [][RefreshSettled =>
          \/ /\ storedItems' \in Catalogs
             /\ storedSelection' = FirstName(storedItems')
             /\ feedback' = feedback
          \/ /\ storedItems' = storedItems
             /\ storedSelection' = storedSelection
             /\ feedback' = [type |-> "error"]]_vars

\* in stored mode, with no analyze ever started: a refresh has delivered the
\* catalog, "s2" was selected, and a refresh has failed, leaving both in place
C17_Witness ==
    /\ mode = "stored"
    /\ ~editorOpen
    /\ listReqs = 0
    /\ storedItems = <<"s1", "s2">>
    /\ storedSelection = "s2"
    /\ feedback = [type |-> "error"]

(* ------------------------------- C16 ---------------------------------- *)
\* a step of handleUploadStore or handleGitStore
StoreStep == zipStoreReq' # zipStoreReq \/ gitStoreReq' # gitStoreReq

\* the awaited catalog refresh of a store handler settles in this step
StoreRefreshStep ==
    \/ zipStoreReq = "refresh" /\ zipStoreReq' = "idle"
    \/ gitStoreReq = "refresh" /\ gitStoreReq' = "idle"

\* C16: no step of handleUploadStore or handleGitStore, successful or not,
\* changes analysisResult or the tree; it changes only the handler's loading
\* flag, the notice and, once the store has succeeded, the catalog state that
\* refreshStoredItems writes.
C16_StoreLeavesAnalysis ==
    [][StoreStep =>
          /\ analysisResult' = analysisResult
          /\ UNCHANGED <<treeEntries, outTree, mode, zipFile, gitUrl, directoryPath>>
          /\ UNCHANGED <<progressVars, editorOpen, uploadLoading, analysisLoading>>
          /\ UNCHANGED <<upReq, stReq, storedDeleting, delReq, listReqs>>
          /\ ~StoreRefreshStep => UNCHANGED <<storedItems, storedSelection>>]_vars

\* an analysis result is on display, a store has succeeded and its catalog
\* refresh is under way
C16_Witness ==
    /\ analysisResult \in Results
    /\ zipStoreReq = "refresh"
    /\ uploadStoring
    /\ storedLoading
    /\ feedback = [type |-> "success"]

(* ------------------------------- C18 ---------------------------------- *)
\* handleDeleteStored issues its DELETE
DeleteIssued == delReq.pc = "idle" /\ delReq'.pc = "fetch"

\* the DELETE fails: a non-2xx answer or a rejected fetch
DeleteFailed == delReq.pc = "fetch" /\ delReq'.pc = "idle"

\* the refresh of handleDeleteStored starts
DeleteRefreshStarts == delReq.pc # "refresh" /\ delReq'.pc = "refresh"

\* C18: handleDeleteStored issues the DELETE for the selected name without
\* starting a refresh; its refresh starts only when the DELETE has been
\* answered with success; a failed DELETE starts no refresh and leaves
\* storedItems and storedSelection unchanged.
C18_DeleteThenRefresh ==
    [][/\ DeleteIssued =>
            /\ storedSelection # ""
            /\ delReq'.name = storedSelection
            /\ UNCHANGED <<storedLoading, listReqs, storedItems, storedSelection>>
       /\ DeleteRefreshStarts => (delReq.pc = "fetch" /\ delReq'.ok /\ storedLoading')
       /\ DeleteFailed =>
            /\ UNCHANGED <<storedLoading, listReqs, storedItems, storedSelection>>
            /\ feedback' = [type |-> "error"]]_vars

\* the DELETE of the selected "s2" has succeeded and the refresh it starts is
\* under way
C18_Witness ==
    /\ delReq = [pc |-> "refresh", name |-> "s2", ok |-> TRUE]
    /\ storedDeleting
    /\ storedLoading
    /\ storedSelection = "s2"
    /\ feedback = [type |-> "success"]

(* ------------------------------- C19 ---------------------------------- *)
\* C19: at most one progress interval timer is active, and it is the one the
\* timer reference holds, after any sequence of starts and stops.
C19_SingleTimer ==
    /\ Cardinality(intervals) <= 1
    /\ intervals # {} => intervals = {timerRef}

\* a second start without a stop in between: both requests are outstanding and
\* the timer of the second start is the active one
C19_Witness ==
    /\ Outstanding(upReq)
    /\ Outstanding(stReq)
    /\ timerRef = 2
    /\ intervals = {2}

(* ------------------------------- C20 ---------------------------------- *)
\* a /health request is issued in this step
HealthIssued == Len(healthChecks') > Len(healthChecks)

\* C20: a /health check is issued at mount and one per interval tick, whatever
\* the user does; the cleanup at unmount clears the interval and aborts the
\* checks in flight, and no /health request is issued after it.
C20_HealthLifetime ==
    /\ [](healthPhase = "initial" => (healthChecks = <<>> /\ ~healthTimer))
    /\ [](healthPhase = "unmounted" =>
              (~healthTimer /\ \A i \in 1..Len(healthChecks) : healthChecks[i] # "pending"))
    /\ [][/\ healthPhase = "initial" /\ healthPhase' = "mounted" =>
               (healthChecks' = <<"pending">> /\ healthTimer')
          /\ HealthIssued =>
               /\ Len(healthChecks') = Len(healthChecks) + 1
               /\ healthPhase' = "mounted"
               /\ UNCHANGED <<mode, feedback, storedVars>>
          /\ mode' # mode => UNCHANGED healthVars
          /\ healthPhase = "unmounted" => ~HealthIssued]_vars

\* unmounted after a tick, with one check answered before and another aborted
\* by the cleanup and not yet settled
C20_Witness ==
    /\ healthPhase = "unmounted"
    /\ Len(healthChecks) >= 2
    /\ \E i \in 1..Len(healthChecks) : healthChecks[i] = "aborted"
    /\ apiHealthy = "online"
    /\ mode = "stored"

(* ------------------------------- C21 ---------------------------------- *)
\* the sum of countOf over the files of index i and later whose path starts
\* with prefix
RECURSIVE FolderSum(_, _, _)
FolderSum(files, prefix, i) ==
    IF i > Len(files) THEN 0
    ELSE (IF StartsWith(files[i].analysis.file_path, prefix)
          THEN countOf(files[i].analysis) ELSE 0)
         + FolderSum(files, prefix, i + 1)

\* the count shown for every file is the sum of the lengths of its four arrays
C21_FileCounts ==
    \A i \in 1..Len(shownFiles) :
        LET a == shownFiles[i].analysis IN
        shownCounts[a.file_path] =
            LengthOf(a, "crypto_imports") + LengthOf(a, "crypto_functions")
            + LengthOf(a, "crypto_patterns_found")
            + LengthOf(a, "crypto_algorithms_detected")

\* C21: the count of a file is the sum of the lengths of its four arrays, an
\* absent array counting 0; the count of a folder is the sum of the counts of
\* the files whose path starts with the folder path, to which '/' is appended
\* unless the folder path already ends with '/'; an empty folder path counts 0.
C21_CountsNormalised ==
    rendered =>
        /\ C21_FileCounts
        /\ shownFolderCount =
              IF viewFolder = <<>> THEN 0
              ELSE FolderSum(shownFiles,
                             IF Last(viewFolder) = Slash THEN viewFolder
                             ELSE viewFolder \o <<Slash>>, 1)

\* C21 as stated: the folder count sums the files whose path starts with the
\* folder path followed by '/', whatever the folder path ends with.
C21_CountsSlashAppended ==
    rendered =>
        /\ C21_FileCounts
        /\ shownFolderCount =
              IF viewFolder = <<>> THEN 0
              ELSE FolderSum(shownFiles, viewFolder \o <<Slash>>, 1)

\* folder "/s" beside "/s/a" (count 3) and "/src/a" (count 4): the folder shows 3
C21_Witness ==
    /\ rendered
    /\ viewFolder = <<Slash, 115>>
    /\ FileSA \in DOMAIN shownCounts /\ FileSrcA \in DOMAIN shownCounts
    /\ shownCounts[FileSA] = 3 /\ shownCounts[FileSrcA] = 4
    /\ shownFolderCount = 3

(* ------------------------------- C22 ---------------------------------- *)
\* every list of the given field in the crypto_summary of a review, joined in
\* review order
AllListed(field) ==
    IF viewResult = Null \/ "detailed_reviews" \notin DOMAIN viewResult THEN <<>>
    ELSE Collected(viewResult.detailed_reviews, field, 1)

\* the position of the first occurrence of x in arr
FirstAt(arr, x) == MinOf({i \in 1..Len(arr) : arr[i] = x})

\* out holds the non-empty strings of all, each once, in first-occurrence order
AggregatedFrom(out, all) ==
    /\ {out[i] : i \in 1..Len(out)} = {all[i] : i \in 1..Len(all)} \ {""}
    /\ \A i, j \in 1..Len(out) : i < j => FirstAt(all, out[i]) < FirstAt(all, out[j])

\* C22: the aggregated vulnerabilities, and likewise the recommendations, hold
\* every non-empty string of some crypto_summary list of detailed_reviews,
\* each exactly once, in order of first occurrence, and no empty entry.
C22_FindingsAggregated ==
    rendered =>
        /\ AggregatedFrom(shownFindings.vulnerabilities, AllListed("vulnerabilities"))
        /\ AggregatedFrom(shownFindings.recommendations, AllListed("recommendations"))

\* two reviews list "x", "", "y" and then "y", "x": the aggregate is "x", "y"
C22_Witness ==
    /\ rendered
    /\ AllListed("vulnerabilities") = <<"x", "", "y", "y", "x">>
    /\ shownFindings.vulnerabilities = <<"x", "y">>

(* ------------------------------- C23 ---------------------------------- *)
\* C23: with a non-empty files collection the chart data holds, in each of
\* the function, import and pattern arrays, one count per file in collection
\* order, and each total is the sum of its array; with a null result or an
\* empty files collection the chart data is null and no chart is rendered.
C23_ChartSeries ==
    rendered =>
        IF viewResult # Null /\ Len(shownFiles) > 0
        THEN /\ shownChartData # Null
             /\ Len(shownChartData.functionCounts) = Len(shownFiles)
             /\ Len(shownChartData.importCounts) = Len(shownFiles)
             /\ Len(shownChartData.patternCounts) = Len(shownFiles)
             /\ \A i \in 1..Len(shownFiles) :
                   /\ shownChartData.functionCounts[i] =
                         LengthOf(shownFiles[i].analysis, "crypto_functions")
                   /\ shownChartData.importCounts[i] =
                         LengthOf(shownFiles[i].analysis, "crypto_imports")
                   /\ shownChartData.patternCounts[i] =
                         LengthOf(shownFiles[i].analysis, "crypto_patterns_found")
             /\ shownChartData.totals.functions =
                   reduceSum(shownChartData.functionCounts, 1)
             /\ shownChartData.totals.imports =
                   reduceSum(shownChartData.importCounts, 1)
             /\ shownChartData.totals.patterns =
                   reduceSum(shownChartData.patternCounts, 1)
        ELSE shownChartData = Null /\ ~shownCharts

\* the charts of "/src/a" before "/s/a": functions 1 and 2, imports 0 and 1,
\* patterns 1 and 0
C23_Witness ==
    /\ rendered
    /\ shownCharts
    /\ shownChartData # Null
    /\ shownChartData.functionCounts = <<1, 2>>
    /\ shownChartData.importCounts = <<0, 1>>
    /\ shownChartData.patternCounts = <<1, 0>>
    /\ shownChartData.totals = [functions |-> 3, imports |-> 1, patterns |-> 1]

(* ------------------------------- C25 ---------------------------------- *)
\* the array getFilesCollection reads: detailed_reviews when it is non-empty,
\* else basic_analysis when it is non-empty, else none
ChosenArray ==
    IF viewResult = Null THEN "none"
    ELSE IF "detailed_reviews" \in DOMAIN viewResult
            /\ viewResult.detailed_reviews # <<>> THEN "detailed_reviews"
    ELSE IF "basic_analysis" \in DOMAIN viewResult
            /\ viewResult.basic_analysis # <<>> THEN "basic_analysis"
    ELSE "none"

\* C25: the files collection is empty when the result is null or has neither
\* a non-empty detailed_reviews nor a non-empty basic_analysis; otherwise it
\* holds one entry per element of detailed_reviews when that array is
\* non-empty (its original_analysis, or the review itself without one), and
\* only otherwise one entry per element of basic_analysis, in array order.
C25_FilesCollection ==
    rendered =>
        CASE ChosenArray = "none" -> shownFiles = <<>>
          [] ChosenArray = "detailed_reviews" ->
                /\ Len(shownFiles) = Len(viewResult.detailed_reviews)
                /\ \A i \in 1..Len(shownFiles) :
                      LET r == viewResult.detailed_reviews[i] IN
                      shownFiles[i].analysis =
                          IF "original_analysis" \in DOMAIN r /\ r.original_analysis # Null
                          THEN r.original_analysis ELSE r
          [] ChosenArray = "basic_analysis" ->
                /\ Len(shownFiles) = Len(viewResult.basic_analysis)
                /\ \A i \in 1..Len(shownFiles) :
                      shownFiles[i].analysis = viewResult.basic_analysis[i]

\* a result with both arrays, whose second review has no original_analysis:
\* the collection follows the reviews
C25_Witness ==
    /\ rendered
    /\ viewResult # Null
    /\ ChosenArray = "detailed_reviews"
    /\ "basic_analysis" \in DOMAIN viewResult
    /\ Len(viewResult.basic_analysis) = 1
    /\ Len(shownFiles) = 2
    /\ "original_analysis" \notin DOMAIN viewResult.detailed_reviews[2]
    /\ shownFiles[2].analysis = viewResult.detailed_reviews[2]

(* ------------------------------- C26 ---------------------------------- *)
\* the depth-first pre-order of a forest: roots in order, a node before its
\* children
RECURSIVE PreOrder(_)
PreOrder(forest) ==
    IF forest = <<>> THEN <<>>
    ELSE <<forest[1]>> \o PreOrder(forest[1].children) \o PreOrder(Tail(forest))

\* C26: the depth-first pre-order traversal of the forest of the entry-based
\* builder yields the entries in exactly the input order, each entry as
\* exactly one node.
C26_PreOrderIsInput ==
    EntriesBuilt =>
        LET order == PreOrder(outTree) IN
        /\ Len(order) = Len(inEntries)
        /\ \A i \in 1..Len(order) :
              /\ order[i].path = inEntries[i].path
              /\ order[i].name = inEntries[i].name
              /\ order[i].type = inEntries[i].type
              /\ order[i].level = inEntries[i].level

\* four entries: a folder holding a folder that holds a file, then a root
C26_Witness ==
    /\ EntriesBuilt
    /\ Len(inEntries) = 4
    /\ Len(outTree) = 2
    /\ Len(outTree[1].children) = 1
    /\ Len(outTree[1].children[1].children) = 1
    /\ outTree[2].path = 4

(* ------------------------------- C27 ---------------------------------- *)
\* a leading '/' and no empty segment after it
AbsoluteStyle(p) ==
    /\ Len(p) >= 2
    /\ p[1] = Slash
    /\ \A i \in 2..Len(Split(p)) : Split(p)[i] # <<>>

\* the segments of p are the first segments of q, and q has more
SegmentPrefix(p, q) ==
    /\ Len(Parts(p)) < Len(Parts(q))
    /\ SubSeq(Parts(q), 1, Len(Parts(p))) = Parts(p)

\* the input the round trip is stated for
RoundTripInput ==
    /\ \A i \in 1..Len(inPaths) : AbsoluteStyle(inPaths[i])
    /\ \A i, j \in 1..Len(inPaths) : ~SegmentPrefix(inPaths[i], inPaths[j])

ToggleStep(p) ==
    /\ anReq' = anReq /\ dirReqs' = dirReqs /\ treeEntries' = treeEntries
    /\ expanded' # expanded
    /\ p \in DOMAIN expanded'
    /\ \A q \in DOMAIN expanded : q # p => expanded'[q] = expanded[q]

\* C28: one toggle of a drawn folder changes its displayed expansion, also
\* for a folder of level 0 or 1 that is displayed expanded without an entry
\* in the expansion map.
C28_ToggleInverts ==
    [][\A n \in FolderNodes :
          ToggleStep(n.path) => isExpanded(expanded', n) # isExpanded(expanded, n)]_vars

(* ------------------------------- C29 ---------------------------------- *)
\* a request of the analyzer view is outstanding
AnalyzerPending == anReq.pc # "idle" \/ dirReqs > 0

\* C29: with no request outstanding, a non-empty tree and a non-null result,
\* the tree was set by the handler that set the result.
C29_TreeOfResult ==
    (~AnalyzerPending /\ treeEntries # <<>> /\ analysisResult # Null) => treeOfResult

(* ------------------------------- C30 ---------------------------------- *)
\* C30: storedSelection is the empty string or the name of an item of
\* storedItems, and the empty string whenever storedItems is empty.
C30_SelectionInCatalog ==
    /\ storedSelection = "" \/ \E i \in 1..Len(storedItems) : storedItems[i] = storedSelection
    /\ storedItems = <<>> => storedSelection = ""

\* one refresh has settled and another is still in flight while the second
\* item of the catalog is selected
C30_Witness ==
    /\ listReqs > 0
    /\ ~storedLoading
    /\ storedItems = <<"s1", "s2">>
    /\ storedSelection = "s2"

(* ------------------------------- C24 ---------------------------------- *)
\* a refreshStoredItems is in flight, started by the page or awaited by a handler
RefreshOutstanding ==
    listReqs > 0 \/ zipStoreReq = "refresh" \/ gitStoreReq = "refresh"
    \/ delReq.pc = "refresh"

\* the loading flag of every operation whose handler is not running is false
FlagsFollowRequests ==
    /\ upReq.pc = "idle" => ~uploadLoading
    /\ stReq.pc = "idle" => ~analysisLoading
    /\ zipStoreReq = "idle" => ~uploadStoring
    /\ gitStoreReq = "idle" => ~gitStoreLoading
    /\ delReq.pc = "idle" => ~storedDeleting
    /\ structureReq = "idle" => ~structureLoading
    /\ ~RefreshOutstanding => ~storedLoading
    /\ anReq.pc = "idle" => ~loading

\* the number of requests in flight
InFlight ==
    listReqs + dirReqs
    + (IF upReq.pc = "idle" THEN 0 ELSE 1) + (IF stReq.pc = "idle" THEN 0 ELSE 1)
    + (IF zipStoreReq = "idle" THEN 0 ELSE 1) + (IF gitStoreReq = "idle" THEN 0 ELSE 1)
    + (IF delReq.pc = "idle" THEN 0 ELSE 1) + (IF structureReq = "idle" THEN 0 ELSE 1)
    + (IF anReq.pc = "idle" THEN 0 ELSE 1)

\* C24: the loading flag of an operation is false whenever none of its
\* requests is in flight, whether the request succeeded, was answered non-2xx
\* or threw; as requests resolve the page is again and again without a request
\* in flight, so every raised flag is lowered and the action can be started
\* again; and no step that settles a request starts one, only a user action does.
C24_RetryAlwaysPossible ==
    /\ []FlagsFollowRequests
    /\ []<>(InFlight = 0)
    /\ [][InFlight' > InFlight => nRequests' = nRequests + 1]_vars

\* the analyzer view: a first analyze has resolved without a result and the
\* same action has been started again
C24_Witness ==
    /\ route = "/analyzer"
    /\ nRequests = 2
    /\ resetTimeouts = 1
    /\ analysisResult = Null
    /\ anReq.pc = "fetch"
    /\ loading

====
